---- MODULE Spec2Model ----
(***************************************************************************)
(* Retrieval and chunking engine of syntra-fs (FastAPI/app/services).      *)
(*                                                                         *)
(* Text is modelled at character level: a Python str is a sequence of      *)
(* one-character strings, so strip(), split(), join(), the sentence regex  *)
(* and substring search are computed as the code computes them.            *)
(* Similarity scores are fixed-point numbers in thousandths (1000 = 1.0).  *)
(***************************************************************************)
EXTENDS Integers, Sequences, FiniteSets, TLC

VARIABLES
    min_chunk_words,   \* SmartChunker.min_chunk_words
    max_chunk_words,   \* SmartChunker.max_chunk_words
    chunk_size,        \* TextChunker.chunk_size
    overlap,           \* TextChunker.overlap
    metadata,          \* the metadata dict handed to _prepare_chunks
    pages_data,        \* DocumentService._pages_data
    chunks,            \* the list returned by the chunking call
    path,              \* which chunker fed `chunks`: "none", "smart", "legacy"
    pc,                \* position of the ingestion pipeline
    session,           \* the chunk rows added in the task's open transaction
    flushed,           \* how many of them db.flush() has sent to the database
    db_documents,      \* the documents table: id -> row
    db_chunks,         \* the document_chunks table, in physical order
    call,              \* the arguments of the retrieval call and the embedding outcome
    chunks_with_distance,  \* the candidates fetched by the last retrieval
    fetch_count,       \* candidate queries executed by the last retrieval
    ret_chunks,        \* chunks returned by _retrieve_relevant_chunks (chunk ids)
    similarities,      \* scores returned by _retrieve_relevant_chunks
    context_chunks,    \* the chunks process_chat builds the context from
    context_similarities,  \* their scores, after the relevance validation
    chat_log,          \* the chat messages saved by process_chat (roles)
    references,        \* the ChatReference rows saved by process_chat
    error,             \* the exception raised by the handler, "none" if none
    pc_chat,           \* position of the chat side
    query_info,        \* the dict returned by _process_query for the last query
    chat_filters,      \* the list returned by _build_metadata_filters for it
    processing_status, \* Document.processing_status of the document of the task
    processing_error,  \* Document.processing_error of it, None if NULL
    message,           \* the task message at the broker: "ready", "unacked", "acked"
    retries,           \* self.request.retries of the message
    redeliveries,      \* how often the broker has delivered the message again
    rerun,             \* the message was delivered again after a committed run
    storage            \* the objects of the MinIO bucket (file paths)

chunk_vars == <<min_chunk_words, max_chunk_words, chunk_size, overlap,
                metadata, pages_data, chunks, path, pc, session, flushed>>

chat_vars == <<db_documents, db_chunks, call, chunks_with_distance, fetch_count,
               ret_chunks, similarities, context_chunks, context_similarities,
               chat_log, references,
               error, pc_chat>>

chat_vars_but_pc == <<db_documents, db_chunks, call, chunks_with_distance,
                      fetch_count, ret_chunks, similarities, context_chunks,
                      context_similarities, chat_log, references, error>>

query_vars == <<query_info, chat_filters>>

task_vars == <<processing_status, processing_error, message, retries,
               redeliveries, rerun, storage>>

vars == <<chunk_vars, chat_vars, query_vars, task_vars>>

-----------------------------------------------------------------------------
(* Python str primitives over character sequences *)

\* the ASCII letters and digits
LOWERCASE == <<"a", "b", "c", "d", "e", "f", "g", "h", "i", "j", "k", "l", "m", "n", "o", "p", "q", "r", "s", "t", "u", "v", "w", "x", "y", "z">>
UPPERCASE == <<"A", "B", "C", "D", "E", "F", "G", "H", "I", "J", "K", "L", "M", "N", "O", "P", "Q", "R", "S", "T", "U", "V", "W", "X", "Y", "Z">>
DIGITS == <<"0", "1", "2", "3", "4", "5", "6", "7", "8", "9">>

\* the element of a one-element set: Only({ e : x \in {v} }) is e for x = v, with
\* v computed once (a local variable of the code)
Only(S) == CHOOSE x \in S : TRUE

\* str.isspace() for the characters of the model alphabet
IsSpace(c) == c \in {" ", "\n"}

\* the character class [A-ZÀ-ɏ] of the sentence regex
IsUpper(c) == c \in {"A", "B", "C", "D", "E", "F"}

\* the character class [.!?] of the sentence regex
IsSentenceEnd(c) == c \in {".", "!", "?"}

\* str.lower() on one character
LOWER_OF == [i \in 1..26 |-> LOWERCASE[i]]
UPPER_INDEX == [c \in { UPPERCASE[i] : i \in 1..26 } |->
                   CHOOSE i \in 1..26 : UPPERCASE[i] = c]
LowerChar(c) == IF c \in DOMAIN UPPER_INDEX THEN LOWER_OF[UPPER_INDEX[c]] ELSE c

lower(s) == [i \in 1..Len(s) |-> LowerChar(s[i])]

RECURSIVE lstrip(_)
lstrip(s) == IF s # <<>> /\ IsSpace(Head(s)) THEN lstrip(Tail(s)) ELSE s

RECURSIVE rstrip(_)
rstrip(s) ==
    IF s # <<>> /\ IsSpace(s[Len(s)]) THEN rstrip(SubSeq(s, 1, Len(s) - 1)) ELSE s

\* str.strip()
strip(s) == rstrip(lstrip(s))

\* the maximal runs of characters of a class, left to right: a run starts at a
\* character of the class that follows none, and ends at one that precedes none;
\* in_class[i] tells whether s[i] is of the class
MaximalRuns(s, in_class) ==
    LET positions == [i \in 1..Len(s) |-> i]
        starts == SelectSeq(positions,
                      LAMBDA i : in_class[i] /\ (i = 1 \/ ~in_class[i - 1]))
        ends == SelectSeq(positions,
                      LAMBDA i : in_class[i] /\ (i = Len(s) \/ ~in_class[i + 1]))
    IN  [k \in 1..Len(starts) |-> SubSeq(s, starts[k], ends[k])]

\* str.split(): the maximal runs of non-whitespace characters
split(s) == MaximalRuns(s, [i \in 1..Len(s) |-> ~IsSpace(s[i])])

\* len(text.split())
word_count_of(s) == Len(split(s))

RECURSIVE join(_, _)
\* sep.join(parts)
join(sep, parts) ==
    IF parts = <<>> THEN <<>>
    ELSE IF Len(parts) = 1 THEN parts[1]
    ELSE parts[1] \o sep \o join(sep, Tail(parts))

\* `a in b` for strings
IsSubstring(a, b) ==
    \E i \in 0..(Len(b) - Len(a)) : SubSeq(b, i + 1, i + Len(a)) = a

\* list[:n]
Take(s, n) == SubSeq(s, 1, IF n < Len(s) THEN n ELSE Len(s))

RECURSIVE SumSeq(_)
\* sum(xs)
SumSeq(xs) == IF xs = <<>> THEN 0 ELSE Head(xs) + SumSeq(Tail(xs))

Max(a, b) == IF a >= b THEN a ELSE b
Min(a, b) == IF a <= b THEN a ELSE b

-----------------------------------------------------------------------------
(* SmartChunker._split_into_sentences *)

\* length of the run of characters satisfying the class, starting at i
RECURSIVE SpaceRun(_, _)
SpaceRun(text, i) ==
    IF i <= Len(text) /\ IsSpace(text[i]) THEN 1 + SpaceRun(text, i + 1) ELSE 0

RECURSIVE NewlineRun(_, _)
NewlineRun(text, i) ==
    IF i <= Len(text) /\ text[i] = "\n" THEN 1 + NewlineRun(text, i + 1) ELSE 0

\* length of the match of (?<=[.!?])\s+(?=[A-Z...])|\n{2,} at position i, 0 if none
SeparatorAt(text, i) ==
    LET run == SpaceRun(text, i)
        nls == NewlineRun(text, i)
    IN  IF /\ i > 1
           /\ IsSentenceEnd(text[i - 1])
           /\ run > 0
           /\ i + run <= Len(text)
           /\ IsUpper(text[i + run])
        THEN run
        ELSE IF nls >= 2 THEN nls ELSE 0

RECURSIVE SpacesBefore(_, _)
\* length of the run of whitespace that ends just before position i
SpacesBefore(text, i) ==
    IF i > 1 /\ IsSpace(text[i - 1]) THEN 1 + SpacesBefore(text, i - 1) ELSE 0

\* the first alternative matches at i: whitespace after [.!?] and before a capital
BoundaryAt(text, i) ==
    /\ i > 1
    /\ IsSentenceEnd(text[i - 1])
    /\ SpaceRun(text, i) > 0
    /\ i + SpaceRun(text, i) <= Len(text)
    /\ IsUpper(text[i + SpaceRun(text, i)])

\* the left-to-right scan finds a separator starting at i: a match of the first
\* alternative, or a run of two or more newlines that no such match has consumed
IsSeparatorStart(text, i) ==
    \/ BoundaryAt(text, i)
    \/ /\ text[i] = "\n"
       /\ (i = 1 \/ text[i - 1] # "\n")
       /\ NewlineRun(text, i) >= 2
       /\ ~BoundaryAt(text, i - SpacesBefore(text, i))

\* re.split: cut out every separator match, keep the pieces between them
RegexSplit(text) ==
    Only({ [k \in 1..(Len(starts) + 1) |->
               SubSeq(text,
                      IF k = 1 THEN 1
                      ELSE starts[k - 1] + SeparatorAt(text, starts[k - 1]),
                      IF k = Len(starts) + 1 THEN Len(text) ELSE starts[k] - 1)] :
           starts \in { SelectSeq([i \in 1..Len(text) |-> i],
                                  LAMBDA i : IsSeparatorStart(text, i)) } })

\* [s.strip() for s in raw if s and s.strip()]
StripNonEmpty(raw) ==
    Only({ [k \in 1..Len(kept) |-> strip(kept[k])] :
           kept \in { SelectSeq(raw, LAMBDA s : strip(s) # <<>>) } })

_split_into_sentences(text) ==
    Only({ StripNonEmpty(raw) : raw \in { RegexSplit(text) } })

-----------------------------------------------------------------------------
(* Constants of services/document.py *)

WORDS_PER_PAGE == 500
KEYWORDS_PER_CHUNK == 7

\* the entries of _STOPWORDS that can be spelled in the model alphabet
_STOPWORDS == { <<"d", "a", "n">> }

\* Optional[int]: None is the empty sequence, a value is a one-element sequence
None == <<>>
Some(v) == <<v>>

\* r with r[name] = value (dict item assignment)
SetItem(r, name, value) ==
    [k \in DOMAIN r \cup {name} |-> IF k = name THEN value ELSE r[k]]

-----------------------------------------------------------------------------
(* SmartChunker._extract_keywords *)

IsAlpha(c) == c \in {"a", "b", "c", "d", "e", "f", "n",
                     "A", "B", "C", "D", "E", "F"}

CharRank(c) ==
    CASE c = "a" -> 1 [] c = "b" -> 2 [] c = "c" -> 3 [] c = "d" -> 4
      [] c = "e" -> 5 [] c = "f" -> 6 [] c = "n" -> 14 [] OTHER -> 0

RECURSIVE StrLess(_, _)
\* a < b for Python strings (lexicographic)
StrLess(a, b) ==
    IF b = <<>> THEN FALSE
    ELSE IF a = <<>> THEN TRUE
    ELSE IF CharRank(Head(a)) # CharRank(Head(b))
         THEN CharRank(Head(a)) < CharRank(Head(b))
         ELSE StrLess(Tail(a), Tail(b))

\* re.findall(r'[a-zA-Z...]{3,}', s): the maximal alphabetic runs of length >= 3
AlphaRuns(s) ==
    SelectSeq(MaximalRuns(s, [i \in 1..Len(s) |-> IsAlpha(s[i])]),
              LAMBDA w : Len(w) >= 3)

\* number of occurrences of w in the list ws
Freq(ws, w) == Cardinality({i \in 1..Len(ws) : ws[i] = w})

\* sorted(freq.items(), key=lambda x: (-x[1], x[0])): a goes before b
KeywordBefore(ws, a, b) ==
    \/ Freq(ws, a) > Freq(ws, b)
    \/ Freq(ws, a) = Freq(ws, b) /\ StrLess(a, b)

\* the distinct words of ws in sorted order
SortedKeywords(ws) ==
    Only({ [k \in 1..Cardinality(distinct) |->
               CHOOSE w \in distinct :
                   Cardinality({v \in distinct : KeywordBefore(ws, v, w)}) = k - 1] :
           distinct \in { {ws[i] : i \in 1..Len(ws)} } })

_extract_keywords(text, max_keywords) ==
    IF text = <<>> \/ Len(strip(text)) < 10 THEN <<>>
    ELSE Only({ IF meaningful = <<>> THEN <<>>
                ELSE Take(SortedKeywords(meaningful), max_keywords) :
                meaningful \in
                    { SelectSeq(AlphaRuns(lower(text)),
                                LAMBDA w : w \notin _STOPWORDS /\ Len(w) >= 3) } })

-----------------------------------------------------------------------------
(* SmartChunker._find_page_number *)

RECURSIVE FirstPageContaining(_, _)
\* the first page whose normalized text contains the snippet, else None
FirstPageContaining(snippet, pages) ==
    IF pages = <<>> THEN None
    ELSE LET page_text_normalized == lower(join(<<" ">>, split(Head(pages).text)))
         IN  IF IsSubstring(snippet, page_text_normalized)
             THEN Some(Head(pages).page_number)
             ELSE FirstPageContaining(snippet, Tail(pages))

\* lines 639 and 652: " ".join(chunk_content.split()[:n])
SnippetOf(chunk_content, n) == join(<<" ">>, Take(split(chunk_content), n))

\* lines 644-657: the page of the snippet, else that of the shorter snippet
PageOfSnippets(snippet_normalized, short_snippet, pages) ==
    Only({ IF first # None THEN first
           ELSE IF Len(short_snippet) >= 10
                THEN FirstPageContaining(short_snippet, pages)
                ELSE None :
           first \in { FirstPageContaining(snippet_normalized, pages) } })

_find_page_number(chunk_content, pages) ==
    IF chunk_content = <<>> \/ pages = <<>> THEN None
    ELSE Only({ IF Len(snippet) < 10 THEN None
                ELSE PageOfSnippets(strip(lower(snippet)),
                                    strip(lower(SnippetOf(chunk_content, 10))),
                                    pages) :
                snippet \in { SnippetOf(chunk_content, 20) } })

-----------------------------------------------------------------------------
(* SmartChunker: chunk dicts *)

\* mutant: len(content) instead of len(content.split())
ContentWords_Chars(content) == content

\* the words of the content (content.split())
ContentWords(content) == split(content)

_build_chunk_dict(content, section_title, chunk_type, document_title) ==
    Only({ [chunk_index    |-> 0,
            content        |-> content,
            token_count    |-> word_count,
            chunk_type     |-> chunk_type,
            page_number    |-> Max(1, (word_count \div WORDS_PER_PAGE) + 1),
            section_title  |-> section_title,
            chunk_metadata |-> [source_document |-> document_title,
                                section         |-> section_title,
                                chunk_strategy  |-> "smart",
                                word_count      |-> word_count]] :
           word_count \in { Len(ContentWords(content)) } })

_map_chunk_type(section_type) ==
    CASE section_type = "title"     -> "TITLE"
      [] section_type = "abstract"  -> "ABSTRACT"
      [] section_type = "reference" -> "REFERENCE"
      [] OTHER                      -> "PARAGRAPH"

-----------------------------------------------------------------------------
(* SmartChunker._create_chunks_from_text *)

\* line 483: the text fits in a single chunk
FitsSingleChunk(word_count) == word_count <= max_chunk_words

\* mutant: the flush test is off by one
MustFlush_OffByOne(current_word_count, sentence_words, current_sentences) ==
    current_word_count + sentence_words > max_chunk_words + 1
        /\ current_sentences # <<>>

\* line 501: the chunk under construction is closed before this sentence
MustFlush(current_word_count, sentence_words, current_sentences) ==
    current_word_count + sentence_words > max_chunk_words
        /\ current_sentences # <<>>

\* a short remainder is merged whatever the size of the last chunk
MergesBackward_Eager(cks, current_word_count) ==
    cks # <<>> /\ current_word_count < min_chunk_words

\* lines 521-525: the short remainder goes into the last emitted chunk
MergesBackward(cks, current_word_count) ==
    /\ cks # <<>>
    /\ current_word_count < min_chunk_words
    /\ Len(split(cks[Len(cks)].content)) + current_word_count <= max_chunk_words

\* lines 526-527: chunks[-1]["content"] += " " + chunk_text, token_count redone
ExtendLast(cks, chunk_text) ==
    Only({ [cks EXCEPT ![Len(cks)] =
               [@ EXCEPT !.content = content,
                         !.token_count = Len(split(content))]] :
           content \in { cks[Len(cks)].content \o <<" ">> \o chunk_text } })

\* the remaining sentences are dropped
FlushRemainder_Dropped(cks, current_sentences, current_word_count, ctx) == cks

\* lines 517-534: flush the remaining sentences
FlushRemainder(cks, current_sentences, current_word_count, ctx) ==
    IF current_sentences = <<>> THEN cks
    ELSE Only({ IF MergesBackward(cks, current_word_count)
                THEN ExtendLast(cks, chunk_text)
                ELSE Append(cks, _build_chunk_dict(chunk_text, ctx.section_title,
                                ctx.chunk_type, ctx.document_title)) :
                chunk_text \in { join(<<" ">>, current_sentences) } })

RECURSIVE PackSentences(_, _, _, _, _)
\* lines 498-514: greedy packing of the sentences
PackSentences(sentences, cks, current_sentences, current_word_count, ctx) ==
    IF sentences = <<>>
    THEN FlushRemainder(cks, current_sentences, current_word_count, ctx)
    ELSE Only({ IF MustFlush(current_word_count, sentence_words,
                             current_sentences)
                THEN PackSentences(Tail(sentences),
                         Append(cks, _build_chunk_dict(
                             join(<<" ">>, current_sentences), ctx.section_title,
                             ctx.chunk_type, ctx.document_title)),
                         << Head(sentences) >>, sentence_words, ctx)
                ELSE PackSentences(Tail(sentences), cks,
                         Append(current_sentences, Head(sentences)),
                         current_word_count + sentence_words, ctx) :
                sentence_words \in { Len(split(Head(sentences))) } })

_create_chunks_from_text(text0, ctx) ==
    Only({ IF text = <<>> THEN <<>>
           ELSE IF FitsSingleChunk(Len(split(text)))
           THEN << _build_chunk_dict(text, ctx.section_title, ctx.chunk_type,
                                     ctx.document_title) >>
           ELSE PackSentences(_split_into_sentences(text), <<>>, <<>>, 0, ctx) :
           text \in { strip(text0) } })

-----------------------------------------------------------------------------
(* SmartChunker._process_section_paragraphs *)

\* mutant: the comparison is reversed
CanMerge_Reversed(combined_word_count) == combined_word_count >= max_chunk_words

\* line 413: the paragraph can join the buffer
CanMerge(combined_word_count) == combined_word_count <= max_chunk_words

\* mutant: the buffer is overwritten instead of extended
MergeIntoBuffer_Overwrite(buffer, paragraph) == paragraph

\* line 415: buffer = buffer + "\n\n" + paragraph
MergeIntoBuffer(buffer, paragraph) == buffer \o <<"\n", "\n">> \o paragraph

\* line 427: the paragraph is too short to stand alone
TooShort(word_count) == word_count < min_chunk_words

\* mutant: no paragraph is skipped
IsBlankParagraph_Never(paragraph) == FALSE

\* line 404: `if not paragraph` on the stripped paragraph
IsBlankParagraph(paragraph) == paragraph = <<>>

\* lines 403-453: one iteration of the loop; the state is <<chunks, buffer>>
ParagraphStep(cks, buffer, paragraph0, ctx) ==
    Only({ IF IsBlankParagraph(paragraph) THEN <<cks, buffer>>
           ELSE Only({
               IF buffer # <<>>
               THEN IF CanMerge(Len(split(buffer)) + word_count)
                    THEN <<cks, MergeIntoBuffer(buffer, paragraph)>>
                    ELSE <<cks \o _create_chunks_from_text(buffer, ctx), paragraph>>
               ELSE IF TooShort(word_count) THEN <<cks, paragraph>>
               ELSE IF word_count > max_chunk_words
               THEN <<cks \o _create_chunks_from_text(paragraph, ctx), <<>> >>
               ELSE IF word_count >= min_chunk_words
               THEN <<cks \o _create_chunks_from_text(paragraph, ctx), <<>> >>
               ELSE <<cks, paragraph>> :
               word_count \in { Len(split(paragraph)) } }) :
           paragraph \in { strip(paragraph0) } })

RECURSIVE ParagraphLoop(_, _, _, _)
ParagraphLoop(paragraphs, cks, buffer, ctx) ==
    IF paragraphs = <<>> THEN <<cks, buffer>>
    ELSE Only({ ParagraphLoop(Tail(paragraphs), st[1], st[2], ctx) :
                st \in { ParagraphStep(cks, buffer, Head(paragraphs), ctx) } })

_process_section_paragraphs(paragraphs, ctx) ==
    Only({ IF strip(st[2]) # <<>>
           THEN st[1] \o _create_chunks_from_text(st[2], ctx)
           ELSE st[1] :
           st \in { ParagraphLoop(paragraphs, <<>>, <<>>, ctx) } })

-----------------------------------------------------------------------------
(* SmartChunker.chunk_structured_sections *)

\* lines 338-346: the paragraphs of a section, or its content as one paragraph
SectionParagraphs(section) ==
    IF section.paragraphs # <<>> THEN section.paragraphs
    ELSE IF strip(section.content) # <<>> THEN << strip(section.content) >>
    ELSE <<>>

RECURSIVE SectionLoop(_, _, _)
\* lines 335-358
SectionLoop(sections, document_title, all_chunks) ==
    IF sections = <<>> THEN all_chunks
    ELSE Only({ SectionLoop(Tail(sections), document_title,
                    IF paragraphs = <<>> THEN all_chunks
                    ELSE all_chunks \o _process_section_paragraphs(paragraphs,
                             [section_title  |-> Head(sections).title,
                              chunk_type     |-> _map_chunk_type(Head(sections).type),
                              document_title |-> document_title])) :
                paragraphs \in { SectionParagraphs(Head(sections)) } })

\* mutant: the re-indexing pass is left out
Reindex_Skipped(cks) == cks

\* lines 360-362 and TextChunker.reindex_chunks: chunk["chunk_index"] = i
Reindex(cks) == [i \in 1..Len(cks) |-> [cks[i] EXCEPT !.chunk_index = i - 1]]

\* lines 365-375: resolve the page number, extract the keywords
\* lines 367-371: the chunk with its resolved page, when one was found
WithPage(chunk, resolved_page) ==
    IF resolved_page # None
    THEN [chunk EXCEPT
            !.page_number = resolved_page[1],
            !.chunk_metadata = SetItem(chunk.chunk_metadata,
                                       "page_number", resolved_page[1])]
    ELSE chunk

\* lines 374-375: chunk_metadata["keywords"]
WithKeywords(chunk) ==
    [chunk EXCEPT !.chunk_metadata =
        SetItem(chunk.chunk_metadata, "keywords",
                _extract_keywords(chunk.content, KEYWORDS_PER_CHUNK))]

Enrich(chunk, pages) ==
    WithKeywords(WithPage(chunk, IF pages # <<>>
                                 THEN _find_page_number(chunk.content, pages)
                                 ELSE None))

chunk_structured_sections(sections, document_title, pages) ==
    Only({ [i \in 1..Len(indexed) |-> Enrich(indexed[i], pages)] :
           indexed \in { Reindex(SectionLoop(sections, document_title, <<>>)) } })

-----------------------------------------------------------------------------
(* TextChunker: the legacy fixed-size chunker *)

\* round(word_start / total_words, 3) in thousandths, ties to even (the
\* representation error of the float quotient is not modelled)
RelativePosition(word_start, total_words) ==
    IF total_words > 0
    THEN LET q == (word_start * 1000) \div total_words
             r == (word_start * 1000) % total_words
         IN  IF 2 * r > total_words \/ (2 * r = total_words /\ q % 2 = 1)
             THEN q + 1 ELSE q
    ELSE 0

_create_chunk_dict(chunk_index, content, word_count, word_start, word_end, total_words, document_title) ==
    LET estimated_page == (word_start \div WORDS_PER_PAGE) + 1
    IN  [chunk_index    |-> chunk_index,
         content        |-> content,
         token_count    |-> word_count,
         chunk_type     |-> "PARAGRAPH",
         page_number    |-> estimated_page,
         section_title  |-> None,
         chunk_metadata |-> [source_document   |-> document_title,
                             word_start        |-> word_start,
                             word_end          |-> word_end,
                             total_words       |-> total_words,
                             relative_position |->
                                 RelativePosition(word_start, total_words),
                             chunk_size        |-> word_count,
                             has_overlap       |-> word_start > 0]]

\* the next window starts where this one ends
NextStart_NoOverlap(end, n_words) == IF end < n_words THEN end ELSE n_words

\* line 206: where the next window starts
NextStart(end, n_words) == IF end < n_words THEN end - overlap ELSE n_words

RECURSIVE WindowLoop(_, _, _, _, _)
\* lines 189-206; start is 0-based as in the code
WindowLoop(words, start, chunk_index, cks, document_title) ==
    IF ~(start < Len(words)) THEN cks
    ELSE LET end == start + chunk_size
             chunk_words == SubSeq(words, start + 1, Min(end, Len(words)))
             chunk_content == join(<<" ">>, chunk_words)
             emit == strip(chunk_content) # <<>>
         IN  WindowLoop(words, NextStart(end, Len(words)),
                 IF emit THEN chunk_index + 1 ELSE chunk_index,
                 IF emit
                 THEN Append(cks, _create_chunk_dict(chunk_index, chunk_content,
                          Len(chunk_words), start, Min(end, Len(words)),
                          Len(words), document_title))
                 ELSE cks,
                 document_title)

chunk_text(text, document_title) ==
    IF text = <<>> \/ strip(text) = <<>> THEN <<>>
    ELSE WindowLoop(split(strip(text)), 0, 0, <<>>, document_title)

create_title_chunk(title, creator, doi) ==
    [chunk_index    |-> 0,
     content        |-> title,
     token_count    |-> Len(split(title)),
     chunk_type     |-> "TITLE",
     page_number    |-> 1,
     section_title  |-> "Title",
     chunk_metadata |-> [source_document |-> title,
                         section         |-> "title",
                         is_header       |-> TRUE,
                         authors         |-> creator,
                         doi             |-> doi]]

create_abstract_chunk(abstract, document_title) ==
    [chunk_index    |-> 0,
     content        |-> abstract,
     token_count    |-> Len(split(abstract)),
     chunk_type     |-> "ABSTRACT",
     page_number    |-> 1,
     section_title  |-> "Abstract",
     chunk_metadata |-> [source_document |-> document_title,
                         section         |-> "abstract",
                         is_summary      |-> TRUE,
                         word_count      |-> Len(split(abstract))]]

\* TextChunker.reindex_chunks
reindex_chunks(cks) == Reindex(cks)

-----------------------------------------------------------------------------
(* DocumentService._prepare_chunks *)

\* lines 1034-1060: the legacy fallback with the abstract and title chunks
\* lines 1042-1048: the abstract chunk goes in front
WithAbstractChunk(md, cks) ==
    IF md.abstract # <<>>
    THEN reindex_chunks(<<create_abstract_chunk(md.abstract, md.title)>> \o cks)
    ELSE cks

\* lines 1051-1058: the title chunk goes in front
WithTitleChunk(md, cks) ==
    IF md.title # <<>>
    THEN reindex_chunks(
             <<create_title_chunk(md.title, md.creator, md.doi)>> \o cks)
    ELSE cks

LegacyChunks(md) ==
    WithTitleChunk(md, WithAbstractChunk(md, chunk_text(md.fulltext, md.title)))

\* lines 1016-1032: the chunks of the smart path, empty if it is not taken
SmartChunks(md, pages) ==
    IF md.structured_sections # <<>>
    THEN chunk_structured_sections(md.structured_sections, md.title, pages)
    ELSE <<>>

\* mutant: the result of the smart path is returned even when it is empty
SmartProduced_Always(cks) == TRUE

\* line 1028 (document_tasks.py line 150): `if chunks:`
SmartProduced(cks) == cks # <<>>

_prepare_chunks(md, pages) ==
    Only({ IF SmartProduced(smart) THEN smart ELSE LegacyChunks(md) :
           smart \in { SmartChunks(md, pages) } })

-----------------------------------------------------------------------------
(* Bounds and input pools *)

MaxParagraphs == 3       \* paragraphs of the varied section
MaxMaxChunkWords == 4    \* largest max_chunk_words explored
MaxChunkSize == 3        \* largest TextChunker.chunk_size explored

\* the texts of the pools, spelled out character by character
P_EMPTY == <<>>   \* ""
P_PAD == <<" ", "b", "\n">>   \* " b\n"
P_TWO == <<"c", " ", "d">>   \* "c d"
P_S3 == <<"a", ".", " ", "B", " ", "c">>   \* "a. B c"
P_S5 == <<"a", ".", " ", "B", " ", "c", ".", " ", "D", " ", "e">>   \* "a. B c. D e"
P_U5 == <<"a", " ", "b", " ", "c", " ", "d", " ", "e">>   \* "a b c d e"
P_N5 == <<"a", " ", "b", "\n", "\n", "c", " ", "d", " ", "e">>   \* "a b\n\nc d e"
P_KW == <<"a", "a", "a", " ", "b", "b", "b", ".", " ", "D", "a", "n", " ", "a", "a", "a">>   \* "aaa bbb. Dan aaa"
P_O6 == <<"a", " ", "b", " ", "c", " ", "d", " ", "e", ".", " ", "F">>   \* "a b c d e. F"
C_ABS == <<" ", "c", " ", "d", " ", "e", " ">>   \* " c d e "
PG_1 == <<"b", " ", "c">>   \* "b c"
PG_3 == <<"A", "a", "a", "\n", "b", "b", "b", ".", " ", "d", "a", "n", " ", " ", "a", "a", "a", " ", "b">>   \* "Aaa\nbbb. dan  aaa b"
T_DOC == <<"A", " ", "b">>   \* "A b"
F_BLANK == <<" ", "\n">>   \* " \n"
F_3 == <<"a", " ", "b", " ", "c">>   \* "a b c"
F_7 == <<"a", " ", "b", " ", "c", " ", "d", " ", "e", " ", "f", "\n", "b">>   \* "a b c d e f\nb"

\* paragraph texts: empty, blank, padded, short, with sentence boundaries, unbroken,
\* with a paragraph break, with long words, with an oversize first sentence
ParagraphPool ==
    { P_EMPTY,
      F_BLANK,
      P_PAD,
      P_TWO,
      P_S3,
      P_S5,
      P_U5,
      P_N5,
      P_KW,
      P_O6 }

SeqsUpTo(S, n) == UNION { [1..k -> S] : k \in 0..n }

\* a section whose paragraphs are any list of up to n texts of the pool
VariedSections(n) ==
    { [type |-> "section", title |-> "Introduction", paragraphs |-> ps,
       content |-> <<>>] : ps \in SeqsUpTo(ParagraphPool, n) }

\* what may follow the first section: a section given by its content only, a
\* reference section, a section with neither paragraphs nor content
TailSections ==
    { << [type |-> "abstract", title |-> "Abstract", paragraphs |-> <<>>,
          content |-> C_ABS] >>,
      << [type |-> "reference", title |-> "References",
          paragraphs |-> << P_TWO >>, content |-> <<>>] >>,
      << [type |-> "section", title |-> "", paragraphs |-> <<>>,
          content |-> <<>>] >> }

PagesPool ==
    { <<>>,
      << [page_number |-> 1, text |-> PG_1],
         [page_number |-> 3, text |-> PG_3] >> }

DocTitle == T_DOC

\* SmartChunker(min_chunk_words, max_chunk_words) with min < max
SmartConfigs == { <<2, mx>> : mx \in 3..MaxMaxChunkWords }

\* TextChunker(chunk_size, overlap) with overlap < chunk_size
LegacyConfigs ==
    { <<cs, ov>> \in (2..MaxChunkSize) \X (0..MaxChunkSize) : ov < cs }

FulltextPool == { <<>>, F_BLANK, F_3, F_7 }

BaseMetadata ==
    [structured_sections |-> <<>>, fulltext |-> <<>>, title |-> DocTitle,
     abstract |-> <<>>, creator |-> "Budi Santoso", doi |-> None]

\* documents with structured sections (the smart path): one section with up to
\* MaxParagraphs paragraphs, or a section of at most one paragraph and a tail
StructuredMetadata ==
    { [BaseMetadata EXCEPT !.structured_sections = <<first>>] :
        first \in VariedSections(MaxParagraphs) }
    \cup
    { [BaseMetadata EXCEPT !.structured_sections = <<first>> \o tail] :
        first \in VariedSections(1), tail \in TailSections }

\* documents whose structured extraction gave nothing usable (the legacy path)
FlatMetadata ==
    { [BaseMetadata EXCEPT !.structured_sections = ss, !.fulltext = ft,
                           !.title = t, !.abstract = ab] :
        ss \in { <<>>,
                 << [type |-> "section", title |-> "", paragraphs |-> <<P_EMPTY>>,
                     content |-> <<>>] >> },
        ft \in FulltextPool,
        t \in { <<>>, DocTitle },
        ab \in { <<>>, C_ABS } }

-----------------------------------------------------------------------------
(* ChatService query processing: _clean_query, _extract_entities,
   _extract_keywords, _build_metadata_filters (services/chat.py) *)

\* the character class [a-zA-Z]
LETTERS == { LOWERCASE[i] : i \in 1..26 } \cup { UPPERCASE[i] : i \in 1..26 }
IsLetter(c) == c \in LETTERS

\* the character class \d
DIGIT_CHARS == { DIGITS[i] : i \in 1..10 }
IsDigit(c) == c \in DIGIT_CHARS

\* the character class \w
IsWordChar(c) == IsLetter(c) \/ IsDigit(c) \/ c = "_"

\* the character class \s
WHITESPACE == {" ", "\n"}

\* the character class [?!.,;:]
IsPunctuation(c) == c \in {"?", "!", ".", ",", ";", ":"}

\* int(c) for a digit
DigitValue(c) == (CHOOSE i \in 1..10 : DIGITS[i] = c) - 1

\* the regex assertion \b between s[i - 1] and s[i]
WordBoundary(s, i) ==
    (i - 1 \in 1..Len(s) /\ IsWordChar(s[i - 1])) # (i \in 1..Len(s) /\ IsWordChar(s[i]))

\* the literal lit matches s at position i
LitAt(s, i, lit) == i + Len(lit) - 1 <= Len(s) /\ SubSeq(s, i, i + Len(lit) - 1) = lit

RECURSIVE RunEnd(_, _, _)
\* the last position of the greedy run of characters of the class that starts
\* at i (i - 1 when the run is empty)
RunEnd(s, i, class) ==
    IF i <= Len(s) /\ s[i] \in class THEN RunEnd(s, i + 1, class) ELSE i - 1

RECURSIVE NonSpaceEnd(_, _)
\* the same for the class [^\s]
NonSpaceEnd(s, i) ==
    IF i <= Len(s) /\ ~IsSpace(s[i]) THEN NonSpaceEnd(s, i + 1) ELSE i - 1

RECURSIVE PartsEnd(_, _, _)
\* the last position of literal parts joined by \s+ that start at p, 0 when
\* they do not match
PartsEnd(s, p, parts) ==
    IF ~LitAt(s, p, Head(parts)) THEN 0
    ELSE IF Len(parts) = 1 THEN p + Len(Head(parts)) - 1
    ELSE Only({ IF sp < p + Len(Head(parts)) THEN 0
                ELSE PartsEnd(s, sp + 1, Tail(parts)) :
                sp \in { RunEnd(s, p + Len(Head(parts)), WHITESPACE) } })

RECURSIVE MoreWords(_, _, _, _)
\* the end of the greedy (?:\s+[a-zA-Z]{min_letters,}){0,more} after position e
MoreWords(s, e, min_letters, more) ==
    IF more = 0 THEN e
    ELSE Only({ Only({ IF sp >= e + 1 /\ le - sp >= min_letters
                       THEN MoreWords(s, le, min_letters, more - 1)
                       ELSE e :
                       le \in { RunEnd(s, sp + 1, LETTERS) } }) :
                sp \in { RunEnd(s, e + 1, WHITESPACE) } })

\* the end of [a-zA-Z]{min_letters,}(?:\s+[a-zA-Z]{min_letters,}){0,more} at
\* position i, 0 when it does not match
NameEnd(s, i, min_letters, more) ==
    Only({ IF le - i + 1 >= min_letters
           THEN MoreWords(s, le, min_letters, more) ELSE 0 :
           le \in { RunEnd(s, i, LETTERS) } })

\* group 1 of (?:alt)\s+(NAME) matched at position p, None when no match;
\* alt is matched against the lowercased text low (re.IGNORECASE)
GroupAt(s, low, p, alt, min_letters, more) ==
    Only({ Only({ Only({ IF e = 0 \/ sp < e + 1 \/ ne = 0 THEN None
                         ELSE Some(SubSeq(s, sp + 1, ne)) :
                         ne \in { NameEnd(s, sp + 1, min_letters, more) } }) :
                  sp \in { RunEnd(s, e + 1, WHITESPACE) } }) :
           e \in { PartsEnd(low, p, alt) } })

RECURSIVE FirstAlternative(_, _, _, _, _, _)
\* the alternatives of (?:a|b|...) are tried in order
FirstAlternative(s, low, p, alts, min_letters, more) ==
    IF alts = <<>> THEN None
    ELSE Only({ IF group # None THEN group
                ELSE FirstAlternative(s, low, p, Tail(alts), min_letters, more) :
                group \in { GroupAt(s, low, p, Head(alts), min_letters, more) } })

\* the least element of a non-empty set of positions
Leftmost(hits) == CHOOSE p \in hits : \A q \in hits : p <= q

\* re.search(r'(?:a|b|...)\s+(NAME)', s, re.IGNORECASE): group 1 of the
\* leftmost match, None when there is none
SearchNameIn(s, low, alts, min_letters, more) ==
    Only({ IF hits = {} THEN None
           ELSE FirstAlternative(s, low, Leftmost(hits), alts, min_letters, more) :
           hits \in { { p \in 1..Len(s) :
                          FirstAlternative(s, low, p, alts, min_letters, more) # None } } })

SearchName(s, alts, min_letters, more) ==
    SearchNameIn(s, lower(s), alts, min_letters, more)

\* re.search(r'\b(w1|w2|...)\b', s) finds a match
SearchWord(s, words) ==
    \E p \in 1..Len(s) : \E i \in 1..Len(words) :
        /\ WordBoundary(s, p)
        /\ LitAt(s, p, words[i])
        /\ WordBoundary(s, p + Len(words[i]))

RECURSIVE ParseInt(_, _)
\* int(text) for a digit string
ParseInt(digits, acc) ==
    IF digits = <<>> THEN acc
    ELSE ParseInt(Tail(digits), acc * 10 + DigitValue(Head(digits)))

RECURSIVE IntToStr(_)
\* str(n) for n >= 0
IntToStr(n) ==
    IF n < 10 THEN <<DIGITS[n + 1]>>
    ELSE Append(IntToStr(n \div 10), DIGITS[(n % 10) + 1])

\* line 128: r'\b(19\d{2}|20\d{2})\b' matches at position p
YearAt(s, p) ==
    /\ p + 3 <= Len(s)
    /\ WordBoundary(s, p)
    /\ LitAt(s, p, <<"1", "9">>) \/ LitAt(s, p, <<"2", "0">>)
    /\ IsDigit(s[p + 2])
    /\ IsDigit(s[p + 3])
    /\ WordBoundary(s, p + 4)

\* lines 128-130: the year of the leftmost match, None when there is none
year_match(query) ==
    Only({ IF hits = {} THEN None
           ELSE Only({ Some(ParseInt(SubSeq(query, p, p + 3), 0)) :
                       p \in { Leftmost(hits) } }) :
           hits \in { { p \in 1..Len(query) : YearAt(query, p) } } })

\* lines 134-135: (?:oleh|penulis|author|ditulis oleh|karya)
AUTHOR_KEYWORDS ==
    << <<<<"o", "l", "e", "h">>>>,
      <<<<"p", "e", "n", "u", "l", "i", "s">>>>,
      <<<<"a", "u", "t", "h", "o", "r">>>>,
      <<<<"d", "i", "t", "u", "l", "i", "s", " ", "o", "l", "e", "h">>>>,
      <<<<"k", "a", "r", "y", "a">>>> >>

\* line 142
AUTHOR_STOPWORDS ==
    { <<"d", "a", "n">>,
      <<"d", "i">>,
      <<"y", "a", "n", "g">>,
      <<"u", "n", "t", "u", "k">>,
      <<"d", "a", "r", "i">>,
      <<"p", "a", "d", "a">>,
      <<"t", "a", "h", "u", "n">>,
      <<"t", "e", "n", "t", "a", "n", "g">> }

\* lines 137-139: the first pattern needs words of two letters or more (with
\* re.IGNORECASE [A-Z] is any letter), the second takes up to four words
author_match(query) ==
    Only({ IF first # None THEN first
           ELSE SearchName(query, AUTHOR_KEYWORDS, 1, 3) :
           first \in { SearchName(query, AUTHOR_KEYWORDS, 2, Len(query)) } })

\* lines 140-143: the words of the captured name that are not stopwords
name_words(author_name) ==
    SelectSeq(split(strip(author_name)), LAMBDA w : lower(w) \notin AUTHOR_STOPWORDS)

\* line 150: (?:bahasa|berbahasa|dalam bahasa)
LANGUAGE_KEYWORDS ==
    << <<<<"b", "a", "h", "a", "s", "a">>>>,
      <<<<"b", "e", "r", "b", "a", "h", "a", "s", "a">>>>,
      <<<<"d", "a", "l", "a", "m", " ", "b", "a", "h", "a", "s", "a">>>> >>

\* lines 150-154: the language names in the order of the alternation, with
\* their codes
LANGUAGE_NAMES ==
    << <<<<"i", "n", "d", "o", "n", "e", "s", "i", "a">>, <<"i", "d">>>>,
       <<<<"i", "n", "g", "g", "r", "i", "s">>, <<"e", "n">>>>,
       <<<<"e", "n", "g", "l", "i", "s", "h">>, <<"e", "n">>>>,
       <<<<"i", "n", "d", "o", "n", "e", "s", "i", "a", "n">>, <<"i", "d">>>>,
       <<<<"m", "e", "l", "a", "y", "u">>, <<"m", "s">>>>,
       <<<<"a", "r", "a", "b">>, <<"a", "r">>>>,
       <<<<"j", "e", "p", "a", "n", "g">>, <<"j", "a">>>>,
       <<<<"m", "a", "n", "d", "a", "r", "i", "n">>, <<"z", "h">>>> >>

RECURSIVE FirstLiteral(_, _, _)
\* the first literal of the list that matches s at position p (its index), 0
\* when none does
FirstLiteral(s, p, literals) ==
    IF literals = <<>> THEN 0
    ELSE IF LitAt(s, p, Head(literals)) THEN 1
    ELSE IF FirstLiteral(s, p, Tail(literals)) = 0 THEN 0
    ELSE 1 + FirstLiteral(s, p, Tail(literals))

\* the index in LANGUAGE_NAMES of the name that follows the keyword parts
\* and \s+ at position p, 0 when they do not match there
LanguageNameAfter(s, p, parts) ==
    Only({ IF e = 0 THEN 0
           ELSE Only({ IF sp < e + 1 THEN 0
                       ELSE FirstLiteral(s, sp + 1,
                                [n \in 1..Len(LANGUAGE_NAMES) |-> LANGUAGE_NAMES[n][1]]) :
                       sp \in { RunEnd(s, e + 1, WHITESPACE) } }) :
           e \in { PartsEnd(s, p, parts) } })

\* the language code matched at position p of the lowercased query, None when
\* the pattern does not match there
LanguageAt(s, p) ==
    Only({ IF starts = {} THEN None
           ELSE Some(LANGUAGE_NAMES[LanguageNameAfter(s, p,
                         LANGUAGE_KEYWORDS[Leftmost(starts)])][2]) :
           starts \in { { i \in 1..Len(LANGUAGE_KEYWORDS) :
                            LanguageNameAfter(s, p, LANGUAGE_KEYWORDS[i]) # 0 } } })

\* lines 156-161
language_match(query_lower) ==
    Only({ IF hits = {} THEN None ELSE LanguageAt(query_lower, Leftmost(hits)) :
           hits \in { { p \in 1..Len(query_lower) :
                         LanguageAt(query_lower, p) # None } } })

\* line 165: (?:diterbitkan(?:\s+oleh)?|penerbit|published\s+by); the optional
\* group is tried first
PUBLISHER_KEYWORDS ==
    << <<<<"d", "i", "t", "e", "r", "b", "i", "t", "k", "a", "n">>, <<"o", "l", "e", "h">>>>,
      <<<<"d", "i", "t", "e", "r", "b", "i", "t", "k", "a", "n">>>>,
      <<<<"p", "e", "n", "e", "r", "b", "i", "t">>>>,
      <<<<"p", "u", "b", "l", "i", "s", "h", "e", "d">>, <<"b", "y">>>> >>

\* lines 164-167
publisher_match(query) == SearchName(query, PUBLISHER_KEYWORDS, 1, 4)

\* lines 173-175, lowercased (the search is case-insensitive)
LOCATIONS ==
    << <<"i", "n", "d", "o", "n", "e", "s", "i", "a">>,
      <<"j", "a", "w", "a">>,
      <<"s", "u", "m", "a", "t", "e", "r", "a">>,
      <<"k", "a", "l", "i", "m", "a", "n", "t", "a", "n">>,
      <<"s", "u", "l", "a", "w", "e", "s", "i">>,
      <<"b", "a", "l", "i">>,
      <<"p", "a", "p", "u", "a">>,
      <<"j", "a", "k", "a", "r", "t", "a">>,
      <<"b", "a", "n", "d", "u", "n", "g">>,
      <<"s", "u", "r", "a", "b", "a", "y", "a">>,
      <<"m", "e", "d", "a", "n">>,
      <<"y", "o", "g", "y", "a", "k", "a", "r", "t", "a">>,
      <<"s", "e", "m", "a", "r", "a", "n", "g">>,
      <<"m", "a", "l", "a", "n", "g">>,
      <<"a", "s", "i", "a">>,
      <<"e", "r", "o", "p", "a">>,
      <<"a", "m", "e", "r", "i", "k", "a">>,
      <<"a", "f", "r", "i", "k", "a">>,
      <<"a", "u", "s", "t", "r", "a", "l", "i", "a">> >>

\* r'\bdi\s+(place)\b' at position p: the text of the place, None when the
\* pattern does not match there; low is the lowercased text
LocationAt(s, low, p) ==
    Only({ Only({ IF /\ WordBoundary(s, p)
                     /\ LitAt(low, p, <<"d", "i">>)
                     /\ sp >= p + 2
                     /\ n # 0
                     /\ WordBoundary(s, sp + 1 + Len(LOCATIONS[n]))
                  THEN Some(SubSeq(s, sp + 1, sp + Len(LOCATIONS[n])))
                  ELSE None :
                  n \in { FirstLiteral(low, sp + 1, LOCATIONS) } }) :
           sp \in { RunEnd(s, p + 2, WHITESPACE) } })

\* lines 172-177
LocationIn(query, low) ==
    Only({ IF hits = {} THEN None ELSE LocationAt(query, low, Leftmost(hits)) :
           hits \in { { p \in 1..Len(query) : LocationAt(query, low, p) # None } } })

location_match(query) == LocationIn(query, lower(query))

\* line 183: (?:jurnal|journal|majalah|di\s+jurnal|di\s+journal)
JOURNAL_KEYWORDS ==
    << <<<<"j", "u", "r", "n", "a", "l">>>>,
      <<<<"j", "o", "u", "r", "n", "a", "l">>>>,
      <<<<"m", "a", "j", "a", "l", "a", "h">>>>,
      <<<<"d", "i">>, <<"j", "u", "r", "n", "a", "l">>>>,
      <<<<"d", "i">>, <<"j", "o", "u", "r", "n", "a", "l">>>> >>

\* lines 182-185
journal_match(query) == SearchName(query, JOURNAL_KEYWORDS, 1, 4)

\* r'(10\.\d{4,}/[^\s]+)' at position p: the last position of the match, 0
\* when it does not match there
DoiEnd(s, p) ==
    Only({ Only({ IF /\ LitAt(s, p, <<"1", "0", ".">>)
                     /\ de - (p + 3) + 1 >= 4
                     /\ de + 1 <= Len(s)
                     /\ s[de + 1] = "/"
                     /\ ne >= de + 2
                  THEN ne ELSE 0 :
                  ne \in { NonSpaceEnd(s, de + 2) } }) :
           de \in { RunEnd(s, p + 3, DIGIT_CHARS) } })

\* line 190
doi_match(query) ==
    Only({ IF hits = {} THEN None
           ELSE Some(SubSeq(query, Leftmost(hits), DoiEnd(query, Leftmost(hits)))) :
           hits \in { { p \in 1..Len(query) : DoiEnd(query, p) # 0 } } })

\* lines 195-201: the patterns in dict order with the value of the
\* DocumentType they map to
TYPE_MAP ==
    << [words |-> << <<"t", "h", "e", "s", "i", "s">>,
                   <<"t", "e", "s", "i", "s">>,
                   <<"s", "k", "r", "i", "p", "s", "i">>,
                   <<"d", "i", "s", "e", "r", "t", "a", "s", "i">> >>,
        doc_type |-> <<"t", "h", "e", "s", "i", "s">>],
       [words |-> << <<"c", "o", "n", "f", "e", "r", "e", "n", "c", "e">>,
                   <<"k", "o", "n", "f", "e", "r", "e", "n", "s", "i">>,
                   <<"s", "e", "m", "i", "n", "a", "r">>,
                   <<"p", "r", "o", "s", "i", "d", "i", "n", "g">> >>,
        doc_type |-> <<"c", "o", "n", "f", "e", "r", "e", "n", "c", "e">>],
       [words |-> << <<"b", "u", "k", "u">>,
                   <<"b", "o", "o", "k">> >>,
        doc_type |-> <<"b", "o", "o", "k">>],
       [words |-> << <<"l", "a", "p", "o", "r", "a", "n">>,
                   <<"r", "e", "p", "o", "r", "t">> >>,
        doc_type |-> <<"r", "e", "p", "o", "r", "t">>],
       [words |-> << <<"j", "u", "r", "n", "a", "l">>,
                   <<"j", "o", "u", "r", "n", "a", "l">>,
                   <<"a", "r", "t", "i", "k", "e", "l">> >>,
        doc_type |-> <<"j", "o", "u", "r", "n", "a", "l">>] >>

RECURSIVE FirstType(_, _)
\* lines 202-205: the type of the first pattern found in the query
FirstType(query_lower, type_map) ==
    IF type_map = <<>> THEN None
    ELSE IF SearchWord(query_lower, Head(type_map).words)
         THEN Some(Head(type_map).doc_type)
         ELSE FirstType(query_lower, Tail(type_map))

\* entities[key] = value[1] when value is a match, entities otherwise
WithEntity(entities, key, value) ==
    IF value = None THEN entities ELSE SetItem(entities, key, value[1])

\* lines 144-145: entities["creator"] when the name keeps a word
WithCreator(entities, names) ==
    IF names # <<>> THEN SetItem(entities, "creator", join(<<" ">>, names))
    ELSE entities

\* lines 168-169, 186-187: entities[key] = value[1].strip() for a match
WithStripped(entities, key, value) ==
    IF value = None THEN entities ELSE SetItem(entities, key, strip(value[1]))

\* lines 128-130
EntitiesYear(query) == WithEntity(<<>>, "year", year_match(query))

\* lines 133-146
EntitiesCreator(query) ==
    Only({ IF author = None THEN EntitiesYear(query)
           ELSE WithCreator(EntitiesYear(query), name_words(author[1])) :
           author \in { author_match(query) } })

\* lines 149-161
EntitiesLanguage(query) ==
    WithEntity(EntitiesCreator(query), "language", language_match(lower(query)))

\* lines 164-169
EntitiesPublisher(query) ==
    WithStripped(EntitiesLanguage(query), "publisher", publisher_match(query))

\* lines 172-179
EntitiesLocation(query) ==
    WithEntity(EntitiesPublisher(query), "location", location_match(query))

\* lines 182-187
EntitiesSource(query) ==
    WithStripped(EntitiesLocation(query), "source", journal_match(query))

\* lines 190-192
EntitiesDoi(query) == WithEntity(EntitiesSource(query), "doi", doi_match(query))

\* lines 109-207: the entities dict, <<>> when empty
_extract_entities(query) ==
    WithEntity(EntitiesDoi(query), "doc_type", FirstType(lower(query), TYPE_MAP))

RECURSIVE RemoveTrailingPunctuation(_)
\* line 104: re.sub(r'[?!.,;:]+$', '', cleaned)
RemoveTrailingPunctuation(s) ==
    IF s # <<>> /\ IsPunctuation(s[Len(s)])
    THEN RemoveTrailingPunctuation(SubSeq(s, 1, Len(s) - 1))
    ELSE s

RECURSIVE NormalizeWhitespace(_)
\* line 106: re.sub(r'\s+', ' ', cleaned)
NormalizeWhitespace(s) ==
    IF s = <<>> THEN <<>>
    ELSE IF IsSpace(Head(s))
         THEN <<" ">> \o NormalizeWhitespace(lstrip(s))
         ELSE <<Head(s)>> \o NormalizeWhitespace(Tail(s))

\* lines 99-107
_clean_query(query) ==
    NormalizeWhitespace(RemoveTrailingPunctuation(strip(lower(query))))

\* lines 211-219
QUERY_STOPWORDS ==
    { <<"d", "i">>,
      <<"d", "a", "n">>,
      <<"y", "a", "n", "g">>,
      <<"u", "n", "t", "u", "k">>,
      <<"d", "e", "n", "g", "a", "n">>,
      <<"d", "a", "r", "i">>,
      <<"k", "e">>,
      <<"i", "n", "i">>,
      <<"i", "t", "u">>,
      <<"a", "d", "a", "l", "a", "h">>,
      <<"p", "a", "d", "a">>,
      <<"d", "a", "l", "a", "m">>,
      <<"o", "l", "e", "h">>,
      <<"a", "k", "a", "n">>,
      <<"a", "t", "a", "u">>,
      <<"j", "u", "g", "a">>,
      <<"s", "u", "d", "a", "h">>,
      <<"a", "d", "a">>,
      <<"b", "i", "s", "a">>,
      <<"d", "a", "p", "a", "t">>,
      <<"s", "a", "y", "a">>,
      <<"a", "p", "a">>,
      <<"b", "a", "g", "a", "i", "m", "a", "n", "a">>,
      <<"m", "e", "n", "g", "a", "p", "a">>,
      <<"k", "a", "p", "a", "n">>,
      <<"t", "e", "n", "t", "a", "n", "g">>,
      <<"m", "e", "n", "g", "e", "n", "a", "i">>,
      <<"t", "e", "r", "k", "a", "i", "t">>,
      <<"s", "e", "p", "u", "t", "a", "r">>,
      <<"i", "n", "f", "o", "r", "m", "a", "s", "i">>,
      <<"j", "e", "l", "a", "s", "k", "a", "n">>,
      <<"h", "a", "s", "i", "l">>,
      <<"p", "e", "n", "e", "l", "i", "t", "i", "a", "n">>,
      <<"p", "e", "n", "u", "l", "i", "s">>,
      <<"a", "u", "t", "h", "o", "r">>,
      <<"b", "a", "h", "a", "s", "a">>,
      <<"b", "e", "r", "b", "a", "h", "a", "s", "a">>,
      <<"t", "a", "h", "u", "n">>,
      <<"d", "i", "t", "e", "r", "b", "i", "t", "k", "a", "n">>,
      <<"p", "e", "n", "e", "r", "b", "i", "t">>,
      <<"j", "u", "r", "n", "a", "l">>,
      <<"j", "o", "u", "r", "n", "a", "l">>,
      <<"k", "a", "r", "y", "a">>,
      <<"d", "i", "t", "u", "l", "i", "s">>,
      <<"p", "u", "b", "l", "i", "s", "h", "e", "d">> }

\* lines 226-231: the words of the entity values; the year is the int value,
\* the others are strings (DocumentType is a str)
entity_words(entities) ==
    UNION { IF key = "year" THEN { IntToStr(entities[key]) }
            ELSE UNION { { words[i] : i \in 1..Len(words) } :
                         words \in { split(lower(entities[key])) } } :
            key \in DOMAIN entities }

\* lines 209-234: _extract_keywords of query processing
_extract_query_keywords(cleaned_query, entities) ==
    Only({ IF entities # <<>>
           THEN Only({ SelectSeq(keywords, LAMBDA k : k \notin excluded) :
                       excluded \in { entity_words(entities) } })
           ELSE keywords :
           keywords \in { SelectSeq(split(cleaned_query),
                              LAMBDA w : w \notin QUERY_STOPWORDS /\ Len(w) > 2) } })

\* lines 63-97
_process_query(query) ==
    Only({ [original_query |-> query,
            cleaned_query  |-> cleaned,
            entities       |-> entities,
            keywords       |-> _extract_query_keywords(cleaned, entities)] :
           cleaned \in { _clean_query(query) },
           entities \in { _extract_entities(query) } })

\* the entity keys in the order in which _build_metadata_filters tests them
FILTER_KEYS == <<"year", "creator", "language", "publisher", "location", "source", "doi", "doc_type">>

\* lines 240-303: one filter per entity present, [] for empty entities
_build_metadata_filters(entities) ==
    Only({ [i \in 1..Len(present) |->
               [key |-> present[i], value |-> entities[present[i]]]] :
           present \in { SelectSeq(FILTER_KEYS, LAMBDA key : key \in DOMAIN entities) } })

-----------------------------------------------------------------------------
(* ChatService._retrieve_relevant_chunks (services/chat.py) *)

MIN_CONTENT_LENGTH == 100
MAX_CHUNKS_PER_DOCUMENT == 10
DEFAULT_LIMIT == 5
DEFAULT_THRESHOLD == 550     \* threshold: float = 0.55
\* a floor above the retrieval threshold
RELEVANCE_FLOOR_AboveThreshold == DEFAULT_THRESHOLD + 100

RELEVANCE_FLOOR == 500       \* avg_score < 0.5

UNTITLED == <<"u", "n", "t", "i", "t", "l", "e", "d">>   \* "untitled"
UNTITLED_DOCUMENT == <<"U", "n", "t", "i", "t", "l", "e", "d", " ", "D", "o", "c", "u", "m", "e", "n", "t">>   \* "Untitled Document"

\* lines 401-404: the document title filters of the base query
TitleIsValid(title) ==
    /\ title # None
    /\ title # <<>>
    /\ title # UNTITLED_DOCUMENT
    /\ ~(Len(title) >= Len(UNTITLED)
            /\ lower(SubSeq(title, 1, Len(UNTITLED))) = UNTITLED)

\* every row counts as embedded
HasEmbedding_Always(row) == TRUE

\* the content embedding is not NULL: the filter of line 409, and line 446 (the
\* semantic_score of a row is NULL exactly when its embedding is)
HasEmbedding(row) == row.embedding # None

\* lines 406-409: the chunk filters of the base query; content_length is
\* None for a NULL content
ChunkIsValid(row) ==
    /\ row.content_length # None
    /\ row.content_length[1] # 0
    /\ row.content_length[1] >= MIN_CONTENT_LENGTH
    /\ HasEmbedding(row)

\* lines 392-410: the joined rows that pass the filters, in table order
BaseQuery(documents, store) ==
    SelectSeq(store, LAMBDA row :
        TitleIsValid(documents[row.document_id].title) /\ ChunkIsValid(row))

\* line 424: base_query.filter(*metadata_filters)
FilteredQuery(documents, store) ==
    SelectSeq(BaseQuery(documents, store), LAMBDA row :
        documents[row.document_id].matches_filters)

\* line 383: 1 - cosine distance between the chunk embedding and the query
\* embedding; an embedding is represented by its similarity to the query (a
\* NULL embedding has no score: such a row is dropped before its score is used)
ContentSim(row) == IF row.embedding # None THEN row.embedding[1] ELSE 0

\* lines 386-390: CASE ... ELSE 0.0
QuestionSim(row) ==
    IF row.possibly_question_embedding # None
    THEN row.possibly_question_embedding[1]
    ELSE 0

RECURSIVE InsertDesc(_, _)
\* insert the pair <<key, value>> after every pair whose key is >= its key
InsertDesc(sorted, x) ==
    IF sorted = <<>> THEN <<x>>
    ELSE IF Head(sorted)[1] >= x[1]
         THEN <<Head(sorted)>> \o InsertDesc(Tail(sorted), x)
         ELSE <<x>> \o sorted

RECURSIVE SortPairsDesc(_, _)
SortPairsDesc(pairs, acc) ==
    IF pairs = <<>> THEN acc
    ELSE SortPairsDesc(Tail(pairs), InsertDesc(acc, Head(pairs)))

\* the values of a list of <<key, value>> pairs
Values(pairs) == [i \in 1..Len(pairs) |-> pairs[i][2]]

\* a stable sort of the values by descending key (list.sort(reverse=True) keeps
\* the order of equal keys); keys[i] is the key of values[i]
SortDesc(values, keys) ==
    Values(SortPairsDesc([i \in 1..Len(values) |-> <<keys[i], values[i]>>], <<>>))

\* mutant: the fetch keeps limit * 2 rows
OrderedLimited_Double(rows, limit) ==
    Take(SortDesc(rows, [i \in 1..Len(rows) |-> ContentSim(rows[i])]), limit * 2)

\* order_by(desc('semantic_score')).limit(limit * 4).all(); rows of equal
\* score come in table order
OrderedLimited(rows, limit) ==
    Take(SortDesc(rows, [i \in 1..Len(rows) |-> ContentSim(rows[i])]), limit * 4)

\* line 417
HasMetadataFilters(metadata_filters) == metadata_filters # <<>>

\* a single filtered candidate is enough
EnoughFiltered_One(filtered_results) == Len(filtered_results) >= 1

\* line 432: the filtered candidates are enough to be used
EnoughFiltered(filtered_results) == Len(filtered_results) >= 2

\* lines 423-442: the candidate rows
FetchCandidates(documents, store, metadata_filters, limit) ==
    IF HasMetadataFilters(metadata_filters)
    THEN LET filtered_results ==
                 OrderedLimited(FilteredQuery(documents, store), limit)
         IN  IF EnoughFiltered(filtered_results) THEN filtered_results
             ELSE OrderedLimited(BaseQuery(documents, store), limit)
    ELSE OrderedLimited(BaseQuery(documents, store), limit)

\* lines 423-442: how many candidate queries are executed
FetchQueries(documents, store, metadata_filters, limit) ==
    IF HasMetadataFilters(metadata_filters)
       /\ ~EnoughFiltered(OrderedLimited(FilteredQuery(documents, store), limit))
    THEN 2 ELSE 1

\* lines 458-459
CombinedSemantic(row) ==
    LET q_score == IF QuestionSim(row) # 0 THEN QuestionSim(row) ELSE 0
    IN  Max(ContentSim(row), q_score)

\* line 474: hybrid_score *= 1.1 (scores are multiples of 0.01)
Boost(score) == (score * 11) \div 10

\* `keyword in field_value`, `keyword in content_lower`
KeywordInTitle(keyword, doc) ==
    doc.title # None /\ IsSubstring(keyword, lower(doc.title))
KeywordInContent(keyword, row) == keyword \in row.content_terms

\* lines 340-353: the weight a keyword adds, in halves: 3 for the title, the
\* first field tested, 0.5 for the content when no field matched; the other
\* Dublin Core fields are NULL in the documents of the model
KeywordWeight(keyword, row, doc) ==
    IF KeywordInTitle(keyword, doc) THEN 6
    ELSE IF KeywordInContent(keyword, row) THEN 1
    ELSE 0

\* lines 309-355: min(total_score / max_possible, 1.0), in thousandths
_calculate_keyword_score(row, doc, keywords) ==
    IF keywords = <<>> THEN 0
    ELSE Min((SumSeq([k \in 1..Len(keywords) |->
                        KeywordWeight(keywords[k], row, doc)]) * 1000)
                 \div (6 * Len(keywords)), 1000)

\* the weighting that is commented out at lines 467-470
BaseHybrid_Weighted(combined_semantic, keyword_score) ==
    (combined_semantic * 7 + keyword_score * 3) \div 10

\* lines 462-465: hybrid_score = combined_semantic in both branches
BaseHybrid(combined_semantic, keyword_score) == combined_semantic

\* mutant: the boost is applied whether or not filters were given
HybridScore_AlwaysBoosted(row, metadata_filters, keyword_score) ==
    Boost(BaseHybrid(CombinedSemantic(row), keyword_score))

\* lines 462-474
HybridScore(row, metadata_filters, keyword_score) ==
    IF HasMetadataFilters(metadata_filters)
    THEN Boost(BaseHybrid(CombinedSemantic(row), keyword_score))
    ELSE BaseHybrid(CombinedSemantic(row), keyword_score)

\* lines 476-485: the entry of scored_chunks for a candidate
ScoredChunk(row, metadata_filters, keyword_score) ==
    [chunk           |-> row.id,
     document_id     |-> row.document_id,
     semantic_score  |-> ContentSim(row),
     question_score  |-> QuestionSim(row),
     combined_semantic |-> CombinedSemantic(row),
     keyword_score   |-> keyword_score,
     hybrid_score    |-> HybridScore(row, metadata_filters, keyword_score)]

\* lines 445-487 for the candidates that have a semantic_score
ScoreAll(documents, scorable, keywords, metadata_filters) ==
    [i \in 1..Len(scorable) |->
        ScoredChunk(scorable[i], metadata_filters,
            _calculate_keyword_score(scorable[i],
                documents[scorable[i].document_id], keywords))]

\* lines 445-487: scored_chunks; a candidate without semantic_score is skipped
ScoreCandidates(documents, candidates, keywords, metadata_filters) ==
    ScoreAll(documents, SelectSeq(candidates, HasEmbedding), keywords,
             metadata_filters)

\* a descending sort that turns equal scores around
SortByHybrid_TiesReversed(scored_chunks) ==
    LET n == Len(scored_chunks)
        reversed == [i \in 1..n |-> scored_chunks[n + 1 - i]]
    IN  SortDesc(reversed, [i \in 1..n |-> reversed[i].hybrid_score])

\* line 490: scored_chunks.sort(key=hybrid_score, reverse=True)
SortByHybrid(scored_chunks) ==
    SortDesc(scored_chunks,
             [i \in 1..Len(scored_chunks) |-> scored_chunks[i].hybrid_score])

\* the threshold comparison turned around
BelowThreshold_Reversed(hybrid_score, threshold) == hybrid_score > threshold

\* no threshold gate
BelowThreshold_Never(hybrid_score, threshold) == FALSE

\* line 501
BelowThreshold(hybrid_score, threshold) == hybrid_score < threshold

\* a cap that lets one more chunk through
DocumentCapReached_Late(count) == count > MAX_CHUNKS_PER_DOCUMENT

\* line 504
DocumentCapReached(count) == count >= MAX_CHUNKS_PER_DOCUMENT

\* a limit that lets one more chunk through
LimitReached_Late(n_chunks, limit) == n_chunks > limit

\* line 511
LimitReached(n_chunks, limit) == n_chunks >= limit

\* doc_chunk_count.get(doc_id, 0)
CountOf(doc_chunk_count, doc_id) ==
    IF doc_id \in DOMAIN doc_chunk_count THEN doc_chunk_count[doc_id] ELSE 0

RECURSIVE Walk(_, _, _, _, _, _)
\* lines 497-512: threshold, per-document cap, limit
Walk(items, cks, sims, doc_chunk_count, limit, threshold) ==
    IF items = <<>> THEN <<cks, sims>>
    ELSE LET item == Head(items)
             doc_id == item.document_id
         IN  IF BelowThreshold(item.hybrid_score, threshold)
             THEN Walk(Tail(items), cks, sims, doc_chunk_count, limit, threshold)
             ELSE IF DocumentCapReached(CountOf(doc_chunk_count, doc_id))
             THEN Walk(Tail(items), cks, sims, doc_chunk_count, limit, threshold)
             ELSE LET cks1 == Append(cks, item.chunk)
                      sims1 == Append(sims, item.hybrid_score)
                      count1 == SetItem(doc_chunk_count, doc_id,
                                        CountOf(doc_chunk_count, doc_id) + 1)
                  IN  IF LimitReached(Len(cks1), limit) THEN <<cks1, sims1>>
                      ELSE Walk(Tail(items), cks1, sims1, count1, limit, threshold)

\* a failed embedding that is not noticed
EmbeddingFailed_Ignored(query_embedding) == FALSE

\* line 373
EmbeddingFailed(query_embedding) == query_embedding = None

\* the scored and sorted candidates of a call whose embedding succeeded
RankedCandidates(documents, store, keywords, metadata_filters, limit) ==
    SortByHybrid(ScoreCandidates(documents,
        FetchCandidates(documents, store, metadata_filters, limit),
        keywords, metadata_filters))

\* the pair <<chunks, similarities>> returned
\* keywords is self._extract_keywords(query) of line 379
_retrieve_relevant_chunks(documents, store, keywords, query_embedding, metadata_filters, limit, threshold) ==
    IF EmbeddingFailed(query_embedding) THEN << <<>>, <<>> >>
    ELSE Walk(RankedCandidates(documents, store, keywords, metadata_filters, limit),
              <<>>, <<>>, <<>>, limit, threshold)

\* the candidate queries executed by the call
QueriesExecuted(documents, store, query_embedding, metadata_filters, limit) ==
    IF EmbeddingFailed(query_embedding) THEN 0
    ELSE FetchQueries(documents, store, metadata_filters, limit)

\* the rows fetched by the call
RowsFetched(documents, store, query_embedding, metadata_filters, limit) ==
    IF EmbeddingFailed(query_embedding) THEN <<>>
    ELSE FetchCandidates(documents, store, metadata_filters, limit)

-----------------------------------------------------------------------------
(* ChatService.process_chat *)

\* lines 615-621: avg_score < 0.5 on a non-empty result
LowRelevance(cks, sims) ==
    /\ cks # <<>>
    /\ sims # <<>>
    /\ SumSeq(sims) < RELEVANCE_FLOOR * Len(sims)

\* a validation that drops the chunks below the floor one by one
Validated_PerChunk(cks, sims) ==
    LET kept == { i \in 1..Len(cks) : sims[i] >= RELEVANCE_FLOOR }
        pairs == SelectSeq([i \in 1..Len(cks) |-> <<i, cks[i], sims[i]>>],
                           LAMBDA p : p[1] \in kept)
    IN  <<[i \in 1..Len(pairs) |-> pairs[i][2]],
          [i \in 1..Len(pairs) |-> pairs[i][3]]>>

\* lines 615-624: the pair <<chunks, similarities>> after validation
Validated(cks, sims) ==
    IF LowRelevance(cks, sims) THEN << <<>>, <<>> >> ELSE <<cks, sims>>

\* lines 569-581: one ChatReference per chunk
_save_rag_references(cks, sims) ==
    [i \in 1..Len(cks) |-> [chunk_id |-> cks[i], relevance_score |-> sims[i]]]

-----------------------------------------------------------------------------
(* Ingestion: the chunking calls *)

\* "Budidaya Padi"
TITLE_PADI == <<"B", "u", "d", "i", "d", "a", "y", "a", " ", "P", "a", "d", "i">>

\* "padi", "artikel"
KW_PADI == <<"p", "a", "d", "i">>
KW_ARTIKEL == <<"a", "r", "t", "i", "k", "e", "l">>

\* the documents table: a document that satisfies the metadata filters, one
\* that does not, and one with a placeholder title
DocumentTable ==
    [d \in 1..3 |->
        CASE d = 1 -> [title |-> T_DOC, matches_filters |-> TRUE]
          [] d = 2 -> [title |-> TITLE_PADI, matches_filters |-> FALSE]
          [] OTHER -> [title |-> UNTITLED_DOCUMENT, matches_filters |-> TRUE]]

\* no query processed yet
NoQuery == [original_query |-> <<>>, cleaned_query |-> <<>>, entities |-> <<>>,
            keywords |-> <<>>]

NoCall == [keywords |-> <<>>, query_embedding |-> None, metadata_filters |-> <<>>,
           limit |-> DEFAULT_LIMIT, threshold |-> DEFAULT_THRESHOLD]

\* no chunk row is pending in a transaction
NoTransaction == session = <<>> /\ flushed = 0

\* no task message is pending: the document has been processed
\* (models/document.py 52: processing_status defaults to "completed")
TaskIdle ==
    /\ processing_status = "completed"
    /\ processing_error = None
    /\ message = "acked"
    /\ retries = 0
    /\ redeliveries = 0
    /\ rerun = FALSE
    /\ storage = {}

\* the chat side before any request
ChatIdle ==
    /\ db_documents = DocumentTable
    /\ call = NoCall
    /\ chunks_with_distance = <<>>
    /\ fetch_count = 0
    /\ ret_chunks = <<>>
    /\ similarities = <<>>
    /\ context_chunks = <<>>
    /\ context_similarities = <<>>
    /\ chat_log = <<>>
    /\ references = <<>>
    /\ error = "none"
    /\ pc_chat = "idle"
    /\ query_info = NoQuery
    /\ chat_filters = <<>>

InitChunk ==
    /\ pc = "start"
    /\ chunks = <<>>
    /\ path = "none"
    /\ NoTransaction
    /\ TaskIdle
    /\ ChatIdle
    /\ db_chunks = <<>>
    /\ \/ /\ metadata \in StructuredMetadata
          /\ pages_data \in IF Len(metadata.structured_sections[1].paragraphs) <= 1
                            THEN PagesPool ELSE { <<>> }
          /\ \E cfg \in SmartConfigs :
                min_chunk_words = cfg[1] /\ max_chunk_words = cfg[2]
          /\ chunk_size = MaxChunkSize
          /\ overlap = 1
       \/ /\ metadata \in FlatMetadata
          /\ pages_data = <<>>
          /\ min_chunk_words = 2
          /\ max_chunk_words = MaxMaxChunkWords
          /\ \E cfg \in LegacyConfigs :
                chunk_size = cfg[1] /\ overlap = cfg[2]

\* a direct call of SmartChunker.chunk_structured_sections
ChunkStructuredSections ==
    /\ pc = "start"
    /\ chunks' = chunk_structured_sections(metadata.structured_sections,
                                           metadata.title, pages_data)
    /\ path' = "smart"
    /\ pc' = "chunked"
    /\ UNCHANGED <<min_chunk_words, max_chunk_words, chunk_size, overlap,
                   metadata, pages_data, session, flushed>>
    /\ UNCHANGED chat_vars
    /\ UNCHANGED <<query_vars, task_vars>>

\* DocumentService._prepare_chunks (the same steps are inlined in
\* process_document_task)
PrepareChunks ==
    /\ pc = "start"
    /\ chunks' = _prepare_chunks(metadata, pages_data)
    /\ path' = IF SmartProduced(SmartChunks(metadata, pages_data))
               THEN "smart" ELSE "legacy"
    /\ pc' = "prepared"
    /\ UNCHANGED <<min_chunk_words, max_chunk_words, chunk_size, overlap,
                   metadata, pages_data, session, flushed>>
    /\ UNCHANGED chat_vars
    /\ UNCHANGED <<query_vars, task_vars>>

NextChunk == ChunkStructuredSections \/ PrepareChunks

\* The scenario of a section with paragraphs of 20, 30 and 900 words under
\* the default thresholds MIN_CHUNK_WORDS = 80 and MAX_CHUNK_WORDS = 800, in
\* units of ten words: every comparison of the chunker is between sums of
\* word counts, so ten-word units behave as words do
SCENARIO == [min_chunk_words |-> 8, max_chunk_words |-> 80,
             paragraph_words |-> <<2, 3, 90>>]

MaxScenarioSentences == 3   \* sentences of the long paragraph

\* n one-letter words separated by single spaces, without a sentence boundary
PlainWords(n) == [i \in 1..(2 * n - 1) |-> IF i % 2 = 1 THEN "c" ELSE " "]

\* a sentence of n words: it starts with a capital and ends with a full stop
SentenceOf(n) ==
    <<"B">> \o [i \in 1..(2 * (n - 1)) |-> IF i % 2 = 1 THEN " " ELSE "c"] \o <<".">>

\* the paragraph made of sentences of the given lengths
ParagraphOf(lens) == join(<<" ">>, [i \in 1..Len(lens) |-> SentenceOf(lens[i])])

RECURSIVE Compositions(_, _)
\* the ways of writing n as an ordered sum of at most k positive parts
Compositions(n, k) ==
    IF n = 0 THEN { <<>> }
    ELSE IF k = 0 THEN {}
    ELSE UNION { { <<first>> \o rest : rest \in Compositions(n - first, k - 1) } :
                 first \in 1..n }

ScenarioMetadata ==
    { [BaseMetadata EXCEPT !.structured_sections =
          << [type |-> "section", title |-> "Introduction", content |-> <<>>,
              paragraphs |-> << PlainWords(SCENARIO.paragraph_words[1]),
                                PlainWords(SCENARIO.paragraph_words[2]),
                                ParagraphOf(lens) >>] >>] :
        lens \in Compositions(SCENARIO.paragraph_words[3], MaxScenarioSentences) }

InitScenario ==
    /\ pc = "start"
    /\ chunks = <<>>
    /\ path = "none"
    /\ NoTransaction
    /\ TaskIdle
    /\ ChatIdle
    /\ db_chunks = <<>>
    /\ metadata \in ScenarioMetadata
    /\ pages_data = <<>>
    /\ min_chunk_words = SCENARIO.min_chunk_words
    /\ max_chunk_words = SCENARIO.max_chunk_words
    /\ chunk_size = MaxChunkSize
    /\ overlap = 1

NextScenario == ChunkStructuredSections

SpecScenario == InitScenario /\ [][NextScenario]_vars

SpecChunk == InitChunk /\ [][NextChunk]_vars

-----------------------------------------------------------------------------
(* Properties of the chunkers, checked under SpecChunk *)

\* whitespace collapsed, " ".join(text.split()): the characters of the words
\* and one space for every run of whitespace between two words
Normalized(text) ==
    Only({ Only({ [k \in 1..Len(kept) |->
                     IF IsSpace(t[kept[k]]) THEN " " ELSE t[kept[k]]] :
                  kept \in { SelectSeq([i \in 1..Len(t) |-> i],
                                 LAMBDA i : ~IsSpace(t[i]) \/ ~IsSpace(t[i - 1])) } }) :
           t \in { strip(text) } })

\* the number of whitespace-separated words, counted on the characters
WordsIn(text) ==
    Cardinality({ i \in 1..Len(text) :
                    ~IsSpace(text[i]) /\ (i = 1 \/ IsSpace(text[i - 1])) })

\* the non-empty paragraphs the chunker was given, section by section
InputParagraphs ==
    { p \in UNION { { SectionParagraphs(sec)[k] :
                          k \in 1..Len(SectionParagraphs(sec)) } :
                    sec \in { metadata.structured_sections[j] :
                                  j \in 1..Len(metadata.structured_sections) } } :
        strip(p) # <<>> }

SmartDone == pc \in {"chunked", "prepared"} /\ path = "smart"

\* the normalized contents of chunks i..j joined by single spaces
JoinedContents(i, j) ==
    join(<<" ">>, [k \in 1..(j - i + 1) |-> Normalized(chunks[i + k - 1].content)])

\* C1 as stated: every non-empty input paragraph's normalized text is a
\* substring of the normalized content of some single produced chunk.
C1_EveryParagraphInOneChunk ==
    SmartDone =>
        \A p \in InputParagraphs :
            \E i \in 1..Len(chunks) :
                IsSubstring(Normalized(p), Normalized(chunks[i].content))

\* C1 amended: a non-empty paragraph of at most max_chunk_words words is a
\* substring of a single chunk's normalized content; a longer paragraph is
\* re-segmented: its normalized text is the normalized contents of a run of
\* consecutive chunks joined by single spaces.
C1_NoContentLoss ==
    SmartDone =>
        \A p \in InputParagraphs :
            IF WordsIn(p) <= max_chunk_words
            THEN \E i \in 1..Len(chunks) :
                    IsSubstring(Normalized(p), Normalized(chunks[i].content))
            ELSE \E i \in 1..Len(chunks) : \E j \in i..Len(chunks) :
                    Normalized(p) = JoinedContents(i, j)

\* a long paragraph was split over several chunks and a short one was merged
C1_Witness ==
    /\ SmartDone
    /\ \E p \in InputParagraphs :
          /\ WordsIn(p) > max_chunk_words
          /\ \E i \in 1..Len(chunks) : \E j \in (i + 1)..Len(chunks) :
                Normalized(p) = JoinedContents(i, j)
    /\ \E p \in InputParagraphs : \E i \in 1..Len(chunks) :
          /\ WordsIn(p) < min_chunk_words
          /\ IsSubstring(Normalized(p), Normalized(chunks[i].content))
          /\ Normalized(p) # Normalized(chunks[i].content)

C3_IndexContiguity ==
    pc \in {"chunked", "prepared"} =>
        \A i \in 1..Len(chunks) : chunks[i].chunk_index = i - 1

\* the legacy path with body chunks, the abstract chunk and the title chunk
C3_Witness ==
    /\ pc = "prepared"
    /\ path = "legacy"
    /\ Len(chunks) >= 4
    /\ chunks[1].chunk_type = "TITLE"
    /\ chunks[2].chunk_type = "ABSTRACT"
    /\ chunks[Len(chunks)].chunk_index = Len(chunks) - 1

\* C4: every chunk handed on by the chunkers has token_count equal to the
\* number of whitespace-separated words of its content.
C4_TokenCountIsWordCount ==
    pc \in {"chunked", "prepared"} =>
        \A i \in 1..Len(chunks) : chunks[i].token_count = WordsIn(chunks[i].content)

\* a chunk built by packing several sentences of an oversize paragraph
C4_Witness ==
    /\ SmartDone
    /\ \E p \in InputParagraphs :
          WordsIn(p) > max_chunk_words /\ Len(_split_into_sentences(p)) >= 3
    /\ \E i \in 1..Len(chunks) :
          chunks[i].token_count >= 2 /\ Len(_split_into_sentences(chunks[i].content)) >= 2

-----------------------------------------------------------------------------
(* Retrieval: the chunk store, the retrieval call and process_chat *)

MaxStoreRows == 3     \* rows of an arbitrary store

\* chunk rows: document, content length, content embedding and question
\* embedding (each embedding given by its similarity to the query, in
\* thousandths), None for NULL; content_terms are the query keywords that
\* occur in the lowercased content
RK_A == [document_id |-> 1, content_length |-> Some(100),
         embedding |-> Some(600), possibly_question_embedding |-> None,
         content_terms |-> { KW_ARTIKEL }]
RK_B == [document_id |-> 1, content_length |-> Some(200),
         embedding |-> Some(500), possibly_question_embedding |-> Some(900),
         content_terms |-> {}]
RK_C == [document_id |-> 2, content_length |-> Some(100),
         embedding |-> Some(600), possibly_question_embedding |-> None,
         content_terms |-> { KW_PADI, KW_ARTIKEL }]
RK_D == [document_id |-> 2, content_length |-> Some(150),
         embedding |-> Some(300), possibly_question_embedding |-> None,
         content_terms |-> { KW_ARTIKEL }]
RK_E == [document_id |-> 2, content_length |-> Some(150),
         embedding |-> None, possibly_question_embedding |-> None,
         content_terms |-> {}]
RK_F == [document_id |-> 3, content_length |-> Some(150),
         embedding |-> Some(900), possibly_question_embedding |-> None,
         content_terms |-> {}]
RK_G == [document_id |-> 1, content_length |-> Some(99),
         embedding |-> Some(700), possibly_question_embedding |-> None,
         content_terms |-> {}]

RK_H == [document_id |-> 2, content_length |-> Some(300),
         embedding |-> Some(700), possibly_question_embedding |-> Some(900),
         content_terms |-> {}]

RowKinds == { RK_A, RK_B, RK_C, RK_D, RK_E, RK_F, RK_G, RK_H }

\* the rows with their primary keys, in table order
WithIds(rows) == [i \in 1..Len(rows) |-> SetItem(rows[i], "id", i)]

Repeat(row, n) == [i \in 1..n |-> row]

\* any table of up to MaxStoreRows rows
ShortStores == { WithIds(rows) : rows \in SeqsUpTo(RowKinds, MaxStoreRows) }

\* tables in which one document holds about MAX_CHUNKS_PER_DOCUMENT equal chunks
LongStores ==
    { WithIds(before \o Repeat(row, n) \o after) :
        before \in SeqsUpTo(RowKinds, 1),
        after \in SeqsUpTo({ RK_A, RK_B, RK_C, RK_D }, 1) \cup { <<RK_C, RK_C>> },
        row \in { RK_A, RK_C },
        n \in (MAX_CHUNKS_PER_DOCUMENT - 1)..(MAX_CHUNKS_PER_DOCUMENT + 1) }

MaxQueryWords == 3    \* words of an arbitrary query

\* "siapa penulis artikel tentang padi tahun 2020"
QUERY_SCENARIO == <<"s", "i", "a", "p", "a", " ", "p", "e", "n", "u", "l", "i", "s", " ", "a", "r", "t", "i", "k", "e", "l", " ", "t", "e", "n", "t", "a", "n", "g", " ", "p", "a", "d", "i", " ", "t", "a", "h", "u", "n", " ", "2", "0", "2", "0">>

\* "apa itu padi?"
QUERY_PLAIN == <<"a", "p", "a", " ", "i", "t", "u", " ", "p", "a", "d", "i", "?">>

QueryWords ==
    { <<"s", "i", "a", "p", "a">>,
      <<"p", "e", "n", "u", "l", "i", "s">>,
      <<"a", "r", "t", "i", "k", "e", "l">>,
      <<"p", "a", "d", "i">>,
      <<"t", "a", "h", "u", "n">>,
      <<"2", "0", "2", "0">>,
      <<"B", "u", "d", "i">> }

\* the queries made of up to MaxQueryWords words, and the scenario query
QueryPool ==
    { join(<<" ">>, ws) : ws \in SeqsUpTo(QueryWords, MaxQueryWords) }
        \cup { QUERY_SCENARIO, QUERY_PLAIN }

\* the messages sent to process_chat
ChatQueries == { QUERY_SCENARIO, QUERY_PLAIN }

\* _process_query of the messages sent to process_chat
ChatQueryInfo == [query \in ChatQueries |-> _process_query(query)]

\* chat.py 379: self._extract_keywords(query) of the cleaned query that
\* process_chat passes to the retrieval
ChatQueryKeywords ==
    [query \in ChatQueries |->
        _extract_query_keywords(ChatQueryInfo[query].cleaned_query, <<>>)]

Limits == { 0, 1, 2, MAX_CHUNKS_PER_DOCUMENT + 2 }
Thresholds == { 0, DEFAULT_THRESHOLD, 650 }
QueryEmbeddings == { None, Some("vector") }
FilterLists == { <<>>, <<"year">> }

\* the ingestion side when only the chat side runs
ChunkIdle ==
    /\ min_chunk_words = 2
    /\ max_chunk_words = MaxMaxChunkWords
    /\ chunk_size = MaxChunkSize
    /\ overlap = 1
    /\ metadata = BaseMetadata
    /\ pages_data = <<>>
    /\ chunks = <<>>
    /\ path = "none"
    /\ pc = "start"
    /\ NoTransaction
    /\ TaskIdle

InitRetrieve ==
    /\ ChunkIdle
    /\ ChatIdle
    /\ db_chunks \in ShortStores \cup LongStores

\* a call of _retrieve_relevant_chunks with any arguments, for a query whose
\* keywords are one of the given lists
Retrieve(keyword_lists) ==
    /\ pc_chat = "idle"
    /\ \E qe \in QueryEmbeddings, mf \in FilterLists,
          limit \in Limits, threshold \in Thresholds,
          keywords \in keyword_lists :
          \E res \in { _retrieve_relevant_chunks(db_documents, db_chunks,
                            keywords, qe, mf, limit, threshold) } :
              /\ call' = [keywords |-> keywords,
                          query_embedding |-> qe, metadata_filters |-> mf,
                          limit |-> limit, threshold |-> threshold]
              /\ chunks_with_distance' =
                     RowsFetched(db_documents, db_chunks, qe, mf, limit)
              /\ fetch_count' =
                     QueriesExecuted(db_documents, db_chunks, qe, mf, limit)
              /\ ret_chunks' = res[1]
              /\ similarities' = res[2]
    /\ pc_chat' = "retrieved"
    /\ UNCHANGED <<db_documents, db_chunks, context_chunks,
                   context_similarities, chat_log, references,
                   error>>
    /\ UNCHANGED <<chunk_vars, query_vars, task_vars>>

\* the call for a query without keywords
RetrieveRelevantChunks == Retrieve({ <<>> })

\* process_chat whose conversation lookup fails (_handle_conversation): HTTP 404 before
\* anything is saved
ProcessChatNotFound ==
    /\ pc_chat = "idle"
    /\ error' = "HTTP404"
    /\ pc_chat' = "failed"
    /\ UNCHANGED <<db_documents, db_chunks, call, chunks_with_distance,
                   fetch_count, ret_chunks, similarities, context_chunks,
                   context_similarities,
                   chat_log, references>>
    /\ UNCHANGED <<chunk_vars, query_vars, task_vars>>

\* process_chat, lines 587-660: the user message, retrieval with the default
\* limit and threshold, relevance validation, the bot message, the references
ProcessChat ==
    /\ pc_chat = "idle"
    /\ \E qe \in QueryEmbeddings, query \in ChatQueries :
          LET info == ChatQueryInfo[query]
              mf == _build_metadata_filters(info.entities)
              keywords == ChatQueryKeywords[query]
          IN  \E res \in { _retrieve_relevant_chunks(db_documents, db_chunks,
                               keywords, qe, mf, DEFAULT_LIMIT,
                               DEFAULT_THRESHOLD) } :
              \E val \in { Validated(res[1], res[2]) } :
              /\ query_info' = info
              /\ chat_filters' = mf
              /\ call' = [keywords |-> keywords,
                          query_embedding |-> qe, metadata_filters |-> mf,
                          limit |-> DEFAULT_LIMIT,
                          threshold |-> DEFAULT_THRESHOLD]
              /\ chunks_with_distance' =
                     RowsFetched(db_documents, db_chunks, qe, mf, DEFAULT_LIMIT)
              /\ fetch_count' =
                     QueriesExecuted(db_documents, db_chunks, qe, mf, DEFAULT_LIMIT)
              /\ ret_chunks' = res[1]
              /\ similarities' = res[2]
              /\ context_chunks' = val[1]
              /\ context_similarities' = val[2]
              /\ references' = _save_rag_references(val[1], val[2])
    /\ chat_log' = <<"USER", "BOT">>
    /\ error' = "none"
    /\ pc_chat' = "chatted"
    /\ UNCHANGED <<db_documents, db_chunks>>
    /\ UNCHANGED <<chunk_vars, task_vars>>

\* the relevance validation of process_chat (lines 614-624) applied to the
\* result of a retrieval call
ValidateRelevance ==
    /\ pc_chat = "retrieved"
    /\ LET val == Validated(ret_chunks, similarities)
       IN  /\ context_chunks' = val[1]
           /\ context_similarities' = val[2]
    /\ pc_chat' = "validated"
    /\ UNCHANGED <<db_documents, db_chunks, call, chunks_with_distance,
                   fetch_count, ret_chunks, similarities, chat_log, references,
                   error>>
    /\ UNCHANGED <<chunk_vars, query_vars, task_vars>>

NextRetrieve == RetrieveRelevantChunks \/ ProcessChatNotFound \/ ProcessChat

SpecRetrieve == InitRetrieve /\ [][NextRetrieve]_vars

\* lines 595-601 of process_chat: _process_query and _build_metadata_filters
ProcessQuery ==
    /\ pc_chat = "idle"
    /\ \E query \in QueryPool :
          /\ query_info' = _process_query(query)
          /\ chat_filters' = _build_metadata_filters(_extract_entities(query))
    /\ pc_chat' = "processed"
    /\ UNCHANGED <<chunk_vars, chat_vars_but_pc, task_vars>>

InitQuery == ChunkIdle /\ ChatIdle /\ db_chunks = <<>>

NextQuery == ProcessQuery

SpecQuery == InitQuery /\ [][NextQuery]_vars

\* retrieval followed by the relevance validation, over the stores of fewer
\* than MaxStoreRows rows
InitValidate ==
    /\ ChunkIdle
    /\ ChatIdle
    /\ db_chunks \in { store \in ShortStores : Len(store) < MaxStoreRows }

NextValidate == RetrieveRelevantChunks \/ ValidateRelevance \/ ProcessChat

SpecValidate == InitValidate /\ [][NextValidate]_vars

\* the keyword lists of the queries sent to the scoring: none, one keyword, two
\* keywords, and the keywords of the scenario query
ScoreKeywordLists ==
    { <<>>, <<KW_PADI>>, <<KW_ARTIKEL, KW_PADI>>,
      _extract_query_keywords(_clean_query(QUERY_SCENARIO), <<>>) }

\* a call of _retrieve_relevant_chunks for a query with any of these keywords
RetrieveForQuery == Retrieve(ScoreKeywordLists)

NextScore == RetrieveForQuery

SpecScore == InitValidate /\ [][NextScore]_vars

-----------------------------------------------------------------------------
(* process_document_task (tasks/document_tasks.py): validation of the metadata,
   chunking, one embedding call per chunk, flushes, the final commit *)

\* "Document tanpa judul"
NO_TITLE == <<"D", "o", "c", "u", "m", "e", "n", "t", " ", "t", "a", "n", "p", "a", " ", "j", "u", "d", "u", "l">>

\* "Document-"
HASH_TITLE_PREFIX == <<"D", "o", "c", "u", "m", "e", "n", "t", "-">>

FIRST_LINE_CHARS == 150    \* [:150]
FIRST_LINE_MIN == 10       \* len(first_line) > 10
FLUSH_EVERY == 5           \* (i + 1) % 5 == 0

\* document.py 957: the title is missing or a placeholder
TitleMissing(title) ==
    \/ title = <<>>
    \/ strip(title) = <<>>
    \/ lower(strip(title)) \in { UNTITLED, lower(UNTITLED_DOCUMENT) }

\* document.py 960: fulltext.strip().split('\n')[0][:150].strip()
FirstLine(fulltext) ==
    LET text == strip(fulltext)
        breaks == { i \in 1..Len(text) : text[i] = "\n" }
        line == IF breaks = {} THEN text
                ELSE SubSeq(text, 1, Leftmost(breaks) - 1)
    IN  strip(Take(line, FIRST_LINE_CHARS))

\* document.py 955-968: the title fallbacks; hash_value is hash(fulltext[:500]),
\* which differs from one interpreter process to the next
ValidatedTitle(title, fulltext, hash_value) ==
    IF ~TitleMissing(title) THEN title
    ELSE IF fulltext # <<>>
    THEN IF FirstLine(fulltext) # <<>> /\ Len(FirstLine(fulltext)) > FIRST_LINE_MIN
         THEN FirstLine(fulltext)
         ELSE HASH_TITLE_PREFIX \o IntToStr(hash_value % 100000)
    ELSE NO_TITLE

\* document.py 950-1003, for the fields of the model
_validate_metadata(md, fulltext, hash_value) ==
    [md EXCEPT !.title = ValidatedTitle(md.title, fulltext, hash_value)]

\* document.py 937: "\n\n".join(pages_text)
RawPdfText(pages) == join(<<"\n", "\n">>, [i \in 1..Len(pages) |-> pages[i].text])

\* document_tasks.py 112: raw_pdf_text or fulltext or ""
ValidationText(md, pages) ==
    IF RawPdfText(pages) # <<>> THEN RawPdfText(pages) ELSE md.fulltext

\* the id of the document being ingested
NewDocumentId == Len(DocumentTable) + 1

\* what the embedding service and the question generator give for one chunk:
\* generate_embedding returns None on every failure, and a failed question
\* generation leaves the question embedding None
EmbeddingOutcomes ==
    { [embedding |-> Some(600), possibly_question_embedding |-> Some(900)],
      [embedding |-> None, possibly_question_embedding |-> None],
      [embedding |-> None, possibly_question_embedding |-> Some(900)] }

\* document_tasks.py 201-213: the DocumentChunk row of a chunk
ChunkRow(chunk_data, outcome) ==
    [document_id |-> NewDocumentId,
     content_length |-> Some(Len(chunk_data.content)),
     embedding |-> outcome.embedding,
     possibly_question_embedding |-> outcome.possibly_question_embedding,
     content_terms |-> { keyword \in { KW_PADI, KW_ARTIKEL } :
                           IsSubstring(keyword, lower(chunk_data.content)) }]

\* document_tasks.py 216: the flush after chunk i (0-based) of total
FlushDue(i, total) == (i + 1) % FLUSH_EVERY = 0 \/ (i + 1) = total

\* the rows with the primary keys that follow those of the table
Inserted(table, rows) ==
    table \o [k \in 1..Len(rows) |-> SetItem(rows[k], "id", Len(table) + k)]

MaxIngestParagraphs == 6   \* paragraphs of the ingested structured document
IngestParagraphWords == 60    \* words of each of them

\* the values of hash(fulltext[:500]) explored
HashValues == { 0, 100042 }

\* the documents handed to the task, as <<metadata before validation, pages>>:
\* one that yields neither sections nor text, two without title whose first
\* line is too short / long enough to become the title, one with sections
IngestDocuments ==
    { << [BaseMetadata EXCEPT !.title = <<>>], <<>> >>,
      << [BaseMetadata EXCEPT !.title = UNTITLED, !.fulltext = F_7],
         << [page_number |-> 1, text |-> PG_1] >> >>,
      << [BaseMetadata EXCEPT !.title = <<>>, !.fulltext = F_7, !.abstract = C_ABS],
         << [page_number |-> 2, text |-> P_KW] >> >> }
    \cup
    { << [BaseMetadata EXCEPT !.structured_sections =
             << [type |-> "section", title |-> "Introduction", content |-> <<>>,
                 paragraphs |-> [i \in 1..n |-> PlainWords(IngestParagraphWords)]] >>],
         <<>> >> : n \in { MaxIngestParagraphs } }

\* the task starts after extraction; the table holds a chunk with and a chunk
\* without content embedding of other documents
InitIngest ==
    /\ pc = "extracted"
    /\ \E doc \in IngestDocuments : metadata = doc[1] /\ pages_data = doc[2]
    /\ min_chunk_words = SCENARIO.min_chunk_words
    /\ max_chunk_words = SCENARIO.max_chunk_words
    /\ chunk_size = MaxChunkSize
    /\ overlap = 1
    /\ chunks = <<>>
    /\ path = "none"
    /\ NoTransaction
    /\ TaskIdle
    /\ ChatIdle
    /\ db_chunks = WithIds(<<RK_A, RK_E>>)

\* document_tasks.py 112-134: validate_metadata, then the document row is
\* updated and committed
ValidateMetadata ==
    /\ pc = "extracted"
    /\ \E hash_value \in HashValues :
          metadata' = _validate_metadata(metadata,
                          ValidationText(metadata, pages_data), hash_value)
    /\ db_documents' = Append(db_documents,
                              [title |-> metadata'.title, matches_filters |-> TRUE])
    /\ pc' = "start"
    /\ UNCHANGED <<min_chunk_words, max_chunk_words, chunk_size, overlap,
                   pages_data, chunks, path, session, flushed>>
    /\ UNCHANGED <<db_chunks, call, chunks_with_distance, fetch_count,
                   ret_chunks, similarities, context_chunks,
                   context_similarities, chat_log, references, error, pc_chat>>
    /\ UNCHANGED <<query_vars, task_vars>>

\* document_tasks.py 175-218: one iteration of the loop: the embedding calls,
\* db.add(chunk), and the flush when it is due
EmbedChunk ==
    /\ pc = "prepared"
    /\ Len(session) < Len(chunks)
    /\ \E outcome \in EmbeddingOutcomes :
          session' = Append(session, ChunkRow(chunks[Len(session) + 1], outcome))
    /\ flushed' = IF FlushDue(Len(session), Len(chunks))
                  THEN Len(session) + 1 ELSE flushed
    /\ UNCHANGED <<min_chunk_words, max_chunk_words, chunk_size, overlap,
                   metadata, pages_data, chunks, path, pc>>
    /\ UNCHANGED <<chat_vars, query_vars, task_vars>>

\* document_tasks.py 221-223: the final commit makes the rows of the
\* transaction part of the table
CommitChunks ==
    /\ pc = "prepared"
    /\ Len(session) = Len(chunks)
    /\ db_chunks' = Inserted(db_chunks, session)
    /\ session' = <<>>
    /\ flushed' = 0
    /\ pc' = "completed"
    /\ UNCHANGED <<min_chunk_words, max_chunk_words, chunk_size, overlap,
                   metadata, pages_data, chunks, path>>
    /\ UNCHANGED <<db_documents, call, chunks_with_distance, fetch_count,
                   ret_chunks, similarities, context_chunks,
                   context_similarities, chat_log, references, error, pc_chat>>
    /\ UNCHANGED <<query_vars, task_vars>>

\* document_tasks.py 236-240: an exception of the database during the loop or
\* the commit; db.rollback() drops the rows of the transaction
IngestFails ==
    /\ pc = "prepared"
    /\ session' = <<>>
    /\ flushed' = 0
    /\ pc' = "failed"
    /\ UNCHANGED <<min_chunk_words, max_chunk_words, chunk_size, overlap,
                   metadata, pages_data, chunks, path>>
    /\ UNCHANGED <<chat_vars, query_vars, task_vars>>

\* the task, with a retrieval call of another session at any point; the call
\* reads the committed rows (db_chunks)
NextIngest ==
    \/ ValidateMetadata
    \/ PrepareChunks
    \/ EmbedChunk
    \/ CommitChunks
    \/ IngestFails
    \/ RetrieveRelevantChunks

SpecIngest == InitIngest /\ [][NextIngest]_vars

-----------------------------------------------------------------------------
(* Properties of retrieval *)

\* a retrieval call has returned
Retrieved == pc_chat \in { "retrieved", "chatted" }

\* the call's embedding succeeded
Embedded == Retrieved /\ call.query_embedding # None

\* the row of a returned chunk (primary keys are table positions)
RowOf(id) == db_chunks[id]

\* the hybrid score the call gives a row
HybridOf(id) ==
    HybridScore(RowOf(id), call.metadata_filters,
                _calculate_keyword_score(RowOf(id),
                    db_documents[RowOf(id).document_id], call.keywords))

\* the position of a chunk in the fetched candidate list
FetchPos(id) ==
    CHOOSE k \in 1..Len(chunks_with_distance) : chunks_with_distance[k].id = id

CandidateIds == { chunks_with_distance[k].id : k \in 1..Len(chunks_with_distance) }
ReturnedIds == { ret_chunks[i] : i \in 1..Len(ret_chunks) }

\* positions of the result held by a document
ReturnedOf(doc) ==
    { i \in 1..Len(ret_chunks) : RowOf(ret_chunks[i]).document_id = doc }

\* a comes before b in rank order: higher score, or equal score and fetched
\* earlier
RanksBefore(a, b) ==
    \/ HybridOf(a) > HybridOf(b)
    \/ HybridOf(a) = HybridOf(b) /\ FetchPos(a) < FetchPos(b)

\* candidates that pass the threshold but are not returned
LeftOut == { c \in CandidateIds \ ReturnedIds : HybridOf(c) >= call.threshold }

\* C5: no document holds more than MAX_CHUNKS_PER_DOCUMENT of the chunks
\* returned by _retrieve_relevant_chunks, whatever the candidates, the limit
\* and the threshold
C5_DiversificationCap ==
    Retrieved =>
        \A doc \in DOMAIN db_documents :
            Cardinality(ReturnedOf(doc)) <= MAX_CHUNKS_PER_DOCUMENT

\* a document reaches the cap, one more of its chunks passes the threshold and
\* is left out although the limit is not reached
C5_Witness ==
    /\ Embedded
    /\ Len(ret_chunks) < call.limit
    /\ \E c \in LeftOut :
          Cardinality(ReturnedOf(RowOf(c).document_id)) = MAX_CHUNKS_PER_DOCUMENT

\* the thresholds of the calls, and for every candidate its own score and the
\* next score above it: the thresholds at which a result can change
ThresholdGrid ==
    Thresholds \cup { HybridOf(c) : c \in CandidateIds }
               \cup { HybridOf(c) + 10 : c \in CandidateIds }

\* the result of the same call with another threshold
ResultAt(threshold) ==
    _retrieve_relevant_chunks(db_documents, db_chunks, call.keywords,
                              call.query_embedding, call.metadata_filters,
                              call.limit, threshold)

IsPrefix(s, t) == Len(s) <= Len(t) /\ s = SubSeq(t, 1, Len(s))

\* the chunks and the scores of a result are prefixes of those returned
IsResultPrefix(result2) ==
    /\ Len(result2[1]) <= Len(ret_chunks)
    /\ IsPrefix(result2[1], ret_chunks)
    /\ IsPrefix(result2[2], similarities)

IsShorterResult(result2) == result2[1] # <<>> /\ Len(result2[1]) < Len(ret_chunks)

\* C6: with the same query, corpus, filters and limit, a threshold t2 >= t1
\* never returns more chunks than t1, and the t2 result is a prefix of the t1
\* result
C6_ThresholdMonotonicity ==
    Retrieved =>
        \A t2 \in ThresholdGrid :
            t2 >= call.threshold =>
                IsResultPrefix(ResultAt(t2))

\* a higher threshold returns a non-empty, strictly shorter result
C6_Witness ==
    /\ Embedded
    /\ \E t2 \in ThresholdGrid :
          t2 > call.threshold /\ IsShorterResult(ResultAt(t2))

\* C7: every returned score is >= threshold, no candidate whose hybrid score
\* is below the threshold is returned, and when all candidates are below the
\* threshold the result is empty
C7_ThresholdGate ==
    Retrieved =>
        /\ \A i \in 1..Len(similarities) : similarities[i] >= call.threshold
        /\ \A c \in ReturnedIds : HybridOf(c) >= call.threshold
        /\ (\A c \in CandidateIds : HybridOf(c) < call.threshold)
               => ret_chunks = <<>> /\ similarities = <<>>

\* a candidate below the threshold is dropped while another one is returned,
\* although the limit would have let it in
C7_Witness ==
    /\ Embedded
    /\ ret_chunks # <<>>
    /\ Len(ret_chunks) < call.limit
    /\ \E c \in CandidateIds \ ReturnedIds : HybridOf(c) < call.threshold

\* C8: the returned chunks are in non-increasing hybrid score order, the i-th
\* score is the hybrid score of the i-th chunk, and chunks of equal score keep
\* their fetch order
C8_RankOrder ==
    Retrieved =>
        /\ Len(similarities) = Len(ret_chunks)
        /\ \A i \in 1..Len(ret_chunks) : similarities[i] = HybridOf(ret_chunks[i])
        /\ \A i, j \in 1..Len(ret_chunks) :
              i < j =>
                  /\ similarities[i] >= similarities[j]
                  /\ similarities[i] = similarities[j]
                         => FetchPos(ret_chunks[i]) < FetchPos(ret_chunks[j])

\* the sort moved a chunk ahead of one fetched before it, and two chunks of
\* equal score are returned in fetch order against table order
C8_Witness ==
    /\ Embedded
    /\ \E i, j \in 1..Len(ret_chunks) :
          /\ i < j
          /\ similarities[i] > similarities[j]
          /\ FetchPos(ret_chunks[i]) > FetchPos(ret_chunks[j])
    /\ \E i, j \in 1..Len(ret_chunks) :
          /\ i < j
          /\ similarities[i] = similarities[j]
          /\ ret_chunks[i] > ret_chunks[j]

\* C9: at most limit chunks are returned, and a fetched candidate that passes
\* the threshold is left out only if its document already held
\* MAX_CHUNKS_PER_DOCUMENT chunks or limit chunks were accepted before it in
\* rank order
C9_Limit ==
    Retrieved =>
        /\ Len(ret_chunks) <= call.limit
        /\ \A c \in LeftOut :
              LET before == { i \in 1..Len(ret_chunks) :
                                RanksBefore(ret_chunks[i], c) }
                  same_doc == { i \in before :
                                RowOf(ret_chunks[i]).document_id
                                    = RowOf(c).document_id }
              IN  \/ Cardinality(same_doc) >= MAX_CHUNKS_PER_DOCUMENT
                  \/ Cardinality(before) >= call.limit

\* the limit cuts off a candidate that passes the threshold and whose document
\* is below the cap, and in the same result the cap left out a chunk ranked
\* before a returned one
C9_Witness ==
    /\ Embedded
    /\ Len(ret_chunks) = call.limit
    /\ \E c \in LeftOut :
          Cardinality(ReturnedOf(RowOf(c).document_id)) < MAX_CHUNKS_PER_DOCUMENT
    /\ \E c \in LeftOut :
          \E i \in 1..Len(ret_chunks) : RanksBefore(c, ret_chunks[i])

\* C10: when the query embedding is None, _retrieve_relevant_chunks returns
\* two empty lists without fetching any candidate and without an exception,
\* and process_chat goes on with an empty context and saves no reference
C10_EmbeddingFailure ==
    (Retrieved /\ call.query_embedding = None) =>
        /\ ret_chunks = <<>>
        /\ similarities = <<>>
        /\ fetch_count = 0
        /\ chunks_with_distance = <<>>
        /\ error = "none"
        /\ pc_chat = "chatted" =>
              /\ context_chunks = <<>>
              /\ references = <<>>
              /\ chat_log = <<"USER", "BOT">>

\* process_chat finished after a failed embedding over a store that holds
\* chunks a successful call would have returned
C10_Witness ==
    /\ pc_chat = "chatted"
    /\ call.query_embedding = None
    /\ _retrieve_relevant_chunks(db_documents, db_chunks, call.keywords,
                                 Some("vector"),
                                 call.metadata_filters, call.limit,
                                 call.threshold)[1] # <<>>

\* the fetch with the metadata filters applied, and the fetch without them
FilteredFetch == OrderedLimited(FilteredQuery(db_documents, db_chunks), call.limit)
UnfilteredFetch == OrderedLimited(BaseQuery(db_documents, db_chunks), call.limit)

\* C11: with a non-empty filter list the candidates are those of the filtered
\* fetch iff it has at least 2 rows, otherwise those of the unfiltered fetch;
\* with an empty filter list the candidates are those of the unfiltered fetch
C11_AdvisoryFilters ==
    Embedded =>
        /\ (call.metadata_filters # <<>> /\ Len(FilteredFetch) >= 2)
               => chunks_with_distance = FilteredFetch
        /\ (call.metadata_filters # <<>> /\ Len(FilteredFetch) < 2)
               => chunks_with_distance = UnfilteredFetch
        /\ call.metadata_filters = <<>>
               => chunks_with_distance = UnfilteredFetch

\* one chunk only passes the filters, so the filters are dropped and the
\* candidates include a chunk of a document that does not satisfy them
C11_Witness ==
    /\ Embedded
    /\ call.metadata_filters # <<>>
    /\ Len(FilteredFetch) = 1
    /\ \E k \in 1..Len(chunks_with_distance) :
          ~db_documents[chunks_with_distance[k].document_id].matches_filters

\* the document of a chunk satisfies the metadata filters of the call
MatchesActiveFilter(id) ==
    /\ call.metadata_filters # <<>>
    /\ db_documents[RowOf(id).document_id].matches_filters

\* C12: a returned chunk's score is its combined semantic score times 1.10
\* exactly when its document satisfies the active metadata filter, and the
\* plain combined semantic score otherwise (also after the filter was dropped
\* for having fewer than 2 filtered candidates)
C12_BoostOnlyMatchingDocuments ==
    Embedded =>
        \A i \in 1..Len(ret_chunks) :
            similarities[i] =
                IF MatchesActiveFilter(ret_chunks[i])
                THEN Boost(CombinedSemantic(RowOf(ret_chunks[i])))
                ELSE CombinedSemantic(RowOf(ret_chunks[i]))

\* the relevance validation has run
ValidationDone == pc_chat \in { "validated", "chatted" }

\* the arithmetic mean of the retrieved scores is at least 0.5
MeanAtLeastFloor ==
    /\ similarities # <<>>
    /\ SumSeq(similarities) >= RELEVANCE_FLOOR * Len(similarities)

\* C13: after the validation step the grounding set is exactly the retrieved
\* chunks with all their scores when the mean score is >= 0.5, and empty when
\* the mean is < 0.5 or nothing was retrieved; it is never a proper non-empty
\* subset, and an empty retrieval raises nothing
C13_WholeBatchValidation ==
    ValidationDone =>
        /\ MeanAtLeastFloor
               => context_chunks = ret_chunks
                  /\ context_similarities = similarities
        /\ ~MeanAtLeastFloor
               => context_chunks = <<>> /\ context_similarities = <<>>
        /\ error = "none"

\* a retrieved batch whose mean is below the floor although one of its
\* chunks is above it: the whole batch is discarded
C13_Witness ==
    /\ pc_chat = "validated"
    /\ Len(ret_chunks) >= 2
    /\ ~MeanAtLeastFloor
    /\ \E i \in 1..Len(similarities) : similarities[i] >= RELEVANCE_FLOOR
    /\ context_chunks = <<>>

\* C14: processing the query "siapa penulis artikel tentang padi tahun 2020"
\* yields exactly the entities {year: 2020}
C14_ScenarioEntities ==
    (pc_chat = "processed" /\ query_info.original_query = QUERY_SCENARIO)
        => query_info.entities = [year |-> 2020]

\* the long paragraph of the scenario and its sentences
ScenarioLong == metadata.structured_sections[1].paragraphs[3]
ScenarioSentences == _split_into_sentences(ScenarioLong)

\* the first chunk holds the two short paragraphs merged
ScenarioMerged ==
    /\ Len(chunks) >= 1
    /\ chunks[1].content = PlainWords(SCENARIO.paragraph_words[1]) \o <<"\n", "\n">>
                               \o PlainWords(SCENARIO.paragraph_words[2])
    /\ chunks[1].token_count
           = SCENARIO.paragraph_words[1] + SCENARIO.paragraph_words[2]

-----------------------------------------------------------------------------
(* The fallback to the legacy chunker *)

\* a chunk built by the smart chunker / by the fixed-window chunker
IsSmartChunk(c) ==
    "chunk_strategy" \in DOMAIN c.chunk_metadata
        /\ c.chunk_metadata.chunk_strategy = "smart"
IsWindowChunk(c) == "word_start" \in DOMAIN c.chunk_metadata

\* the fixed windows among the chunks, as <<content, word_start, word_end>>
WindowsOf(cks) ==
    LET windows == SelectSeq(cks, IsWindowChunk)
    IN  [k \in 1..Len(windows) |->
            <<windows[k].content, windows[k].chunk_metadata.word_start,
              windows[k].chunk_metadata.word_end>>]

\* what the smart chunker gives for the document, nothing without sections
SmartResult ==
    IF metadata.structured_sections = <<>> THEN <<>>
    ELSE chunk_structured_sections(metadata.structured_sections, metadata.title,
                                   pages_data)

\* C16: when there are no sections, or the smart chunker gives zero chunks, the
\* chunk set comes from the legacy path (the fixed windows over the fulltext,
\* no smart chunk); when the smart chunker gives at least one chunk the chunk
\* set is exactly its result and holds no legacy chunk
C16_ChunkingFallback ==
    pc = "prepared" =>
        IF SmartResult = <<>>
        THEN /\ path = "legacy"
             /\ \A i \in 1..Len(chunks) : ~IsSmartChunk(chunks[i])
             /\ WindowsOf(chunks) = WindowsOf(chunk_text(metadata.fulltext,
                                                        metadata.title))
        ELSE /\ path = "smart"
             /\ chunks = SmartResult
             /\ \A i \in 1..Len(chunks) :
                   IsSmartChunk(chunks[i]) /\ ~IsWindowChunk(chunks[i])
                       /\ "is_header" \notin DOMAIN chunks[i].chunk_metadata
                       /\ "is_summary" \notin DOMAIN chunks[i].chunk_metadata

\* sections were extracted, the smart chunker gave nothing, and the chunk set
\* holds the fixed windows of the fulltext
C16_Witness ==
    /\ pc = "prepared"
    /\ metadata.structured_sections # <<>>
    /\ SmartResult = <<>>
    /\ path = "legacy"
    /\ Len(WindowsOf(chunks)) >= 2

-----------------------------------------------------------------------------
(* Properties of the ingestion task *)

\* the document yields neither sections nor any text
Unindexable ==
    /\ metadata.structured_sections = <<>>
    /\ strip(metadata.fulltext) = <<>>
    /\ RawPdfText(pages_data) = <<>>

\* the rows of the ingested document in the table
PersistedRows ==
    SelectSeq(db_chunks, LAMBDA row : row.document_id = NewDocumentId)

\* C17: for a document with neither sections nor text the chunk set is empty
\* and no chunk row of the document is persisted
C17_UnindexableHasNoChunks ==
    Unindexable =>
        /\ pc \in { "prepared", "completed" } => chunks = <<>>
        /\ PersistedRows = <<>>

\* C18: a retrieval call, wherever it falls between the steps of the task,
\* returns only rows of the table that have a content embedding
C18_NoUnembeddedChunkReturned ==
    Retrieved =>
        \A i \in 1..Len(ret_chunks) :
            /\ ret_chunks[i] \in 1..Len(db_chunks)
            /\ db_chunks[ret_chunks[i]].embedding # None

\* the call ran after the commit of a task that persisted a chunk without
\* content embedding (with a question embedding) next to embedded ones: the
\* embedded chunk of the document is returned, the other is not
C18_Witness ==
    /\ Retrieved
    /\ pc = "completed"
    /\ \E i \in 1..Len(ret_chunks) :
          db_chunks[ret_chunks[i]].document_id = NewDocumentId
    /\ \E k \in 1..Len(PersistedRows) :
          /\ PersistedRows[k].embedding = None
          /\ PersistedRows[k].possibly_question_embedding # None
          /\ PersistedRows[k].content_length[1] >= MIN_CONTENT_LENGTH

-----------------------------------------------------------------------------
(* Blank paragraphs *)

\* the paragraph is empty or whitespace only
IsBlank(paragraph) == \A i \in 1..Len(paragraph) : paragraph[i] \in {" ", "\n"}

\* the sections without their blank paragraphs; a section that had paragraphs
\* keeps being read from its paragraphs, not from its content
WithoutBlankParagraphs(sections) ==
    [k \in 1..Len(sections) |->
        IF sections[k].paragraphs = <<>> THEN sections[k]
        ELSE [sections[k] EXCEPT
                 !.paragraphs = SelectSeq(sections[k].paragraphs,
                                          LAMBDA paragraph : ~IsBlank(paragraph)),
                 !.content = <<>>]]

\* some paragraph of the document is blank, and some is not
HasBlankParagraph ==
    \E k \in 1..Len(metadata.structured_sections) :
        LET paragraphs == metadata.structured_sections[k].paragraphs
        IN  /\ \E i \in 1..Len(paragraphs) : IsBlank(paragraphs[i])
            /\ \E i \in 1..Len(paragraphs) : ~IsBlank(paragraphs[i])

\* C19: no chunk of the smart chunker is empty after trimming, and the chunk
\* set is the one the same sections give without their blank paragraphs (a
\* blank paragraph creates no chunk and leaves the buffer as it was)
C19_NoEmptyChunk ==
    SmartDone =>
        /\ \A i \in 1..Len(chunks) : ~IsBlank(chunks[i].content)
        /\ chunks = chunk_structured_sections(
                        WithoutBlankParagraphs(metadata.structured_sections),
                        metadata.title, pages_data)

\* a whitespace-only paragraph stood between a buffered paragraph and the
\* paragraph merged with it into one chunk
C19_Witness ==
    /\ SmartDone
    /\ Len(metadata.structured_sections) = 1
    /\ metadata.structured_sections[1].paragraphs = <<P_PAD, F_BLANK, P_TWO>>
    /\ Len(chunks) = 1
    /\ chunks[1].content = strip(P_PAD) \o <<"\n", "\n">> \o P_TWO

-----------------------------------------------------------------------------
(* Score derivation *)

\* max(content_similarity, question_similarity), the latter 0 when the question
\* embedding is absent
OwnSignal(row) ==
    Max(row.embedding[1],
        IF row.possibly_question_embedding = None THEN 0
        ELSE row.possibly_question_embedding[1])

\* the keyword_score of a chunk for the keywords of the call
KeywordScoreOf(id) ==
    _calculate_keyword_score(RowOf(id), db_documents[RowOf(id).document_id],
                             call.keywords)

\* the scored candidates of the call's arguments for other keywords, over the
\* table without the row `removed` (0 removes nothing)
ScoredOtherwise(keywords, removed) ==
    ScoreCandidates(db_documents,
        FetchCandidates(db_documents,
                        SelectSeq(db_chunks, LAMBDA row : row.id # removed),
                        call.metadata_filters, call.limit),
        keywords, call.metadata_filters)

\* every chunk of the scored list that the call returned has the returned score
SameScores(other) ==
    \A j \in 1..Len(other), i \in 1..Len(ret_chunks) :
        other[j].chunk = ret_chunks[i] => other[j].hybrid_score = similarities[i]

\* C20: the score of every returned chunk is max(content_similarity,
\* question_similarity), times 1.10 when the call boosts, and the same chunk
\* gets the same hybrid_score in a run with other query keywords or without
\* one of the other candidates
C20_ScoreDerivation ==
    Embedded =>
        /\ \A i \in 1..Len(ret_chunks) :
               similarities[i] =
                   IF call.metadata_filters # <<>>
                   THEN Boost(OwnSignal(RowOf(ret_chunks[i])))
                   ELSE OwnSignal(RowOf(ret_chunks[i]))
        /\ \A keywords \in ScoreKeywordLists, removed \in 0..Len(db_chunks) :
               SameScores(ScoredOtherwise(keywords, removed))

\* two chunks were returned whose keyword scores differ, one of them above 0
C20_Witness ==
    /\ Embedded
    /\ call.keywords # <<>>
    /\ \E i, j \in 1..Len(ret_chunks) :
          /\ KeywordScoreOf(ret_chunks[i]) > KeywordScoreOf(ret_chunks[j])
          /\ KeywordScoreOf(ret_chunks[j]) > 0
          /\ OwnSignal(RowOf(ret_chunks[i])) < OwnSignal(RowOf(ret_chunks[j]))

-----------------------------------------------------------------------------
(* The provisional page estimate *)

MIN_CHUNK_WORDS == 80
MAX_CHUNK_WORDS == 800

MaxPagedParagraphs == 4    \* paragraphs of the paged section

\* the word counts of its paragraphs: each is a chunk of its own under the
\* default thresholds
PagedParagraphWords == { 200, 400, 600 }

\* documents of one section whose paragraphs add up to several pages of words
PagedMetadata ==
    { [BaseMetadata EXCEPT !.structured_sections =
          << [type |-> "section", title |-> "Introduction", content |-> <<>>,
              paragraphs |-> [k \in 1..Len(ws) |-> PlainWords(ws[k])]] >>] :
        ws \in SeqsUpTo(PagedParagraphWords, MaxPagedParagraphs) \ { <<>> } }

\* SmartChunker() with its default thresholds; the page texts, when there are
\* any, match no chunk
InitPages ==
    /\ pc = "start"
    /\ chunks = <<>>
    /\ path = "none"
    /\ NoTransaction
    /\ TaskIdle
    /\ ChatIdle
    /\ db_chunks = <<>>
    /\ metadata \in PagedMetadata
    /\ pages_data \in PagesPool
    /\ min_chunk_words = MIN_CHUNK_WORDS
    /\ max_chunk_words = MAX_CHUNK_WORDS
    /\ chunk_size = MaxChunkSize
    /\ overlap = 1

NextPages == ChunkStructuredSections

SpecPages == InitPages /\ [][NextPages]_vars

\* the words of the chunks that come before chunk i: the cumulative word
\* position at which chunk i starts
WordPosition(i) == SumSeq([k \in 1..(i - 1) |-> chunks[k].token_count])

\* no page text matches the chunk
NoPageMatches(i) ==
    pages_data = <<>> \/ _find_page_number(chunks[i].content, pages_data) = None

\* C21 as stated: every chunk of the smart chunker that no page text matches
\* keeps as page_number the estimate word_position // 500 + 1, with
\* word_position the cumulative word position of the chunk in the document
C21_CumulativePageEstimate ==
    SmartDone =>
        \A i \in 1..Len(chunks) :
            NoPageMatches(i) =>
                chunks[i].page_number = (WordPosition(i) \div WORDS_PER_PAGE) + 1

-----------------------------------------------------------------------------
(* Re-segmentation *)

RECURSIVE ConcatAll(_)
\* the concatenation of a list of lists
ConcatAll(lists) ==
    IF lists = <<>> THEN <<>> ELSE Head(lists) \o ConcatAll(Tail(lists))

\* the paragraphs the chunker reads, section after section, in input order
InputParagraphList ==
    ConcatAll([j \in 1..Len(metadata.structured_sections) |->
                  SectionParagraphs(metadata.structured_sections[j])])

\* the words of the paragraphs, in input order
InputWords ==
    ConcatAll([k \in 1..Len(InputParagraphList) |-> split(InputParagraphList[k])])

\* the words of the chunks, in chunk_index order
ChunkWords ==
    ConcatAll([i \in 1..Len(chunks) |-> split(chunks[i].content)])

\* the words before paragraph k of the input, before chunk i of the output
WordsBeforeParagraph(k) ==
    SumSeq([n \in 1..(k - 1) |-> Len(split(InputParagraphList[n]))])
WordsBeforeChunk(i) ==
    SumSeq([n \in 1..(i - 1) |-> Len(split(chunks[n].content))])

\* C22: the words of the chunks in chunk_index order are exactly the words of
\* the non-empty paragraphs of all sections in input order (a section without
\* paragraphs is read as the one paragraph of its content): no word is
\* dropped, duplicated or reordered
C22_ReSegmentationOnly ==
    SmartDone =>
        /\ ChunkWords = InputWords
        /\ \A i \in 1..Len(chunks) : chunks[i].chunk_index = i - 1

\* one chunk holds the words of two paragraphs (they were merged in the
\* buffer), and the words of one paragraph are spread over two chunks (it was
\* split at a sentence boundary)
C22_Witness ==
    /\ SmartDone
    /\ \E i \in 1..Len(chunks) : \E k \in 1..(Len(InputParagraphList) - 1) :
          /\ split(InputParagraphList[k]) # <<>>
          /\ split(InputParagraphList[k + 1]) # <<>>
          /\ WordsBeforeChunk(i) <= WordsBeforeParagraph(k)
          /\ WordsBeforeParagraph(k + 2) <= WordsBeforeChunk(i + 1)
    /\ \E i \in 1..(Len(chunks) - 1) : \E k \in 1..Len(InputParagraphList) :
          /\ WordsBeforeParagraph(k) < WordsBeforeChunk(i + 1)
          /\ WordsBeforeChunk(i + 1) < WordsBeforeParagraph(k + 1)

-----------------------------------------------------------------------------
(* Completeness of retrieval over the store *)

\* the metadata filters decided which rows were fetched: filters were given
\* and the filtered query returned enough rows (lines 423-436)
FilterInForce == HasMetadataFilters(call.metadata_filters) /\ fetch_count = 1

\* the stored chunks that pass the filters of the query the call used
EligibleIds ==
    Only({ { rows[k].id : k \in 1..Len(rows) } :
           rows \in { IF FilterInForce
                      THEN FilteredQuery(db_documents, db_chunks)
                      ELSE BaseQuery(db_documents, db_chunks) } })

\* eligible chunks that pass the threshold but are not returned
EligibleLeftOut ==
    { c \in EligibleIds \ ReturnedIds : HybridOf(c) >= call.threshold }

\* limit chunks with a score at least that of c were returned
LimitFilledAbove(c) ==
    Cardinality({ i \in 1..Len(ret_chunks) : similarities[i] >= HybridOf(c) })
        >= call.limit

\* the document of c contributed MAX_CHUNKS_PER_DOCUMENT chunks
DocumentFull(c) ==
    Cardinality(ReturnedOf(RowOf(c).document_id)) >= MAX_CHUNKS_PER_DOCUMENT

\* c was not fetched: limit * 4 rows whose content similarity is at least its
\* own were fetched
CutByFetch(c) ==
    /\ c \notin CandidateIds
    /\ Len(chunks_with_distance) = call.limit * 4
    /\ \A k \in 1..Len(chunks_with_distance) :
          ContentSim(chunks_with_distance[k]) >= ContentSim(RowOf(c))

\* C23: every eligible stored chunk whose hybrid score passes the threshold and
\* that is not returned was displaced by limit returned chunks of at least its
\* score or by the per-document cap, also when its content similarity ranks it
\* outside the first limit * 4 rows
C23_CompleteOverStore ==
    Embedded =>
        \A c \in EligibleLeftOut : LimitFilledAbove(c) \/ DocumentFull(c)

\* C23, amended: such a chunk was displaced by limit returned chunks of at
\* least its score, by the per-document cap, or by the fetch, which keeps the
\* limit * 4 eligible rows of highest content similarity and never scores the
\* others
C23_CompleteOverFetchedRows ==
    Embedded =>
        \A c \in EligibleLeftOut :
            LimitFilledAbove(c) \/ DocumentFull(c) \/ CutByFetch(c)

\* a chunk whose question similarity beats every returned score is not fetched,
\* while the limit is positive and its document is below the cap
C23_Witness ==
    /\ Embedded
    /\ call.limit > 0
    /\ \E c \in EligibleLeftOut :
          /\ CutByFetch(c)
          /\ QuestionSim(RowOf(c)) > ContentSim(RowOf(c))
          /\ \A i \in 1..Len(ret_chunks) : similarities[i] < HybridOf(c)
          /\ ~DocumentFull(c)

-----------------------------------------------------------------------------
(* The quality gate and the unboosted signal *)

\* max(content_similarity, question_similarity) of a stored chunk
CombinedOf(id) == CombinedSemantic(RowOf(id))

\* C24: every chunk returned by _retrieve_relevant_chunks has combined
\* semantic similarity max(content_similarity, question_similarity) >=
\* threshold, whether or not a metadata filter list was supplied
C24_UnboostedGate ==
    Retrieved => \A c \in ReturnedIds : CombinedOf(c) >= call.threshold

\* C24, amended: the gate compares the score after the boost: a returned chunk
\* has combined similarity >= threshold when no filter list was supplied, and
\* combined similarity times 1.1 >= threshold when one was
C24_GateOnBoostedScore ==
    Retrieved =>
        \A c \in ReturnedIds :
            IF HasMetadataFilters(call.metadata_filters)
            THEN Boost(CombinedOf(c)) >= call.threshold
            ELSE CombinedOf(c) >= call.threshold

\* with a filter list, a chunk whose combined similarity is below the
\* threshold is returned
C24_Witness ==
    /\ Embedded
    /\ ret_chunks # <<>>
    /\ HasMetadataFilters(call.metadata_filters)
    /\ \E c \in ReturnedIds :
          /\ CombinedOf(c) < call.threshold
          /\ call.threshold > 0

-----------------------------------------------------------------------------
(* The relevance validation under the default threshold *)

\* process_chat has run its retrieval and validation
Chatted == pc_chat = "chatted"

\* C25: with the default retrieval threshold used by process_chat the
\* relevance validation never discards a non-empty retrieval result: every
\* accepted score is >= 0.55, so the mean is never below the 0.5 floor and the
\* grounding set is the retrieval result
C25_ValidationNeverDiscards ==
    Chatted =>
        /\ call.threshold = DEFAULT_THRESHOLD
        /\ \A i \in 1..Len(similarities) : similarities[i] >= DEFAULT_THRESHOLD
        /\ ~LowRelevance(ret_chunks, similarities)
        /\ context_chunks = ret_chunks
        /\ context_similarities = similarities

\* process_chat retrieved several chunks, among them one at a score below 0.65,
\* and kept them all
C25_Witness ==
    /\ Chatted
    /\ Len(ret_chunks) >= 2
    /\ \E i \in 1..Len(similarities) : similarities[i] < DEFAULT_THRESHOLD + 100
    /\ context_chunks = ret_chunks
    /\ Len(references) = Len(ret_chunks)

-----------------------------------------------------------------------------
(* The word count recorded in the chunk metadata *)

\* chunks i and i + 1 are consecutive pieces of one oversize input paragraph
SplitPair(i) ==
    \E p \in InputParagraphs :
        /\ WordsIn(p) > max_chunk_words
        /\ IsSubstring(Normalized(chunks[i].content) \o <<" ">>
                           \o Normalized(chunks[i + 1].content),
                       Normalized(p))

\* C30: every chunk returned by chunk_structured_sections has
\* chunk_metadata.word_count equal to its token_count, also after a short
\* trailing remainder was dealt with by the backward merge test
C30_MetadataWordCount ==
    SmartDone =>
        \A i \in 1..Len(chunks) :
            chunks[i].chunk_metadata.word_count = chunks[i].token_count

\* an oversize paragraph leaves a remainder shorter than min_chunk_words after
\* a full chunk: the merge test of lines 521-525 is evaluated with a previous
\* chunk present
C30_Witness ==
    /\ SmartDone
    /\ \E i \in 1..(Len(chunks) - 1) :
          /\ SplitPair(i)
          /\ chunks[i + 1].token_count < min_chunk_words
          /\ chunks[i + 1].chunk_metadata.word_count = chunks[i + 1].token_count

\* the remainder of a split paragraph is never merged backwards: the chunks of
\* a split paragraph are its sentences packed in order, each a chunk of its
\* own whenever it is flushed
C30_MergeNeverFires ==
    SmartDone =>
        \A i \in 1..(Len(chunks) - 1) :
            SplitPair(i) =>
                chunks[i].token_count + chunks[i + 1].token_count > max_chunk_words

-----------------------------------------------------------------------------
(* TextChunker.chunk_text, one iteration of its loop at a time *)

MaxLegacyWords == 5        \* words of a text given to the legacy chunker
MaxLegacyChunkSize == 4    \* largest chunk_size of the loop model

\* texts of 1 to MaxLegacyWords words, a padded text with a line break, and a
\* blank text
LegacyTexts ==
    { join(<<" ">>, ws) :
        ws \in SeqsUpTo({ <<"a">>, <<"b", "b">> }, MaxLegacyWords) \ { <<>> } }
        \cup { F_BLANK, <<" ">> \o F_7 \o <<"\n">> }

\* TextChunker(chunk_size, overlap) with chunk_size > overlap >= 0
LegacyWideConfigs ==
    { <<cs, ov>> \in (1..MaxLegacyChunkSize) \X (0..MaxLegacyChunkSize) : ov < cs }

InitLegacy ==
    /\ pc = "start"
    /\ chunks = <<>>
    /\ path = "none"
    /\ NoTransaction
    /\ TaskIdle
    /\ ChatIdle
    /\ db_chunks = <<>>
    /\ \E text \in LegacyTexts : metadata = [BaseMetadata EXCEPT !.fulltext = text]
    /\ pages_data = <<>>
    /\ min_chunk_words = 2
    /\ max_chunk_words = MaxMaxChunkWords
    /\ \E cfg \in LegacyWideConfigs : chunk_size = cfg[1] /\ overlap = cfg[2]

\* lines 182-183: words = text.strip().split()
LegacyWords == split(strip(metadata.fulltext))

\* the value of `start` at the head of the loop (line 189): 0 before the first
\* window, and set by line 206 after each window; every window of a list of
\* words has content, so each iteration has appended the chunk it started at
LoopStart(cks, n_words) ==
    IF cks = <<>> THEN 0
    ELSE NextStart(cks[Len(cks)].chunk_metadata.word_start + chunk_size, n_words)

\* lines 190-204: the chunk of the window that starts at `start`
WindowChunk(words, start, chunk_index, document_title) ==
    Only({ _create_chunk_dict(chunk_index, join(<<" ">>, chunk_words),
               Len(chunk_words), start, Min(start + chunk_size, Len(words)),
               Len(words), document_title) :
           chunk_words \in { SubSeq(words, start + 1,
                                    Min(start + chunk_size, Len(words))) } })

\* one iteration of the while loop (lines 189-206)
LegacyWindow ==
    /\ pc = "start"
    /\ strip(metadata.fulltext) # <<>>
    /\ \E start \in { LoopStart(chunks, Len(LegacyWords)) } :
          /\ start < Len(LegacyWords)
          /\ chunks' = Append(chunks, WindowChunk(LegacyWords, start, Len(chunks),
                                                  metadata.title))
    /\ path' = "legacy"
    /\ UNCHANGED <<min_chunk_words, max_chunk_words, chunk_size, overlap,
                   metadata, pages_data, pc, session, flushed>>
    /\ UNCHANGED chat_vars
    /\ UNCHANGED <<query_vars, task_vars>>

\* the return of line 179 for a blank text, and of line 208 when the loop
\* condition fails
LegacyReturn ==
    /\ pc = "start"
    /\ \/ strip(metadata.fulltext) = <<>>
       \/ ~(LoopStart(chunks, Len(LegacyWords)) < Len(LegacyWords))
    /\ pc' = "chunked"
    /\ path' = "legacy"
    /\ UNCHANGED <<min_chunk_words, max_chunk_words, chunk_size, overlap,
                   metadata, pages_data, chunks, session, flushed>>
    /\ UNCHANGED chat_vars
    /\ UNCHANGED <<query_vars, task_vars>>

NextLegacy == LegacyWindow \/ LegacyReturn

SpecLegacy == InitLegacy /\ [][NextLegacy]_vars

\* the loop is not suspended: a call that can take a step takes it
SpecLegacyFair == SpecLegacy /\ WF_vars(NextLegacy)

\* chunk_text has returned
LegacyReturned == pc = "chunked" /\ path = "legacy"

\* the words of a chunk
WordsOfChunk(i) == split(chunks[i].content)

\* the last n words of chunk i are the first n words of chunk j
SharesWords(i, j, n) ==
    /\ Len(WordsOfChunk(i)) >= n
    /\ Len(WordsOfChunk(j)) >= n
    /\ SubSeq(WordsOfChunk(i), Len(WordsOfChunk(i)) - n + 1, Len(WordsOfChunk(i)))
           = SubSeq(WordsOfChunk(j), 1, n)

\* the properties of the chunks returned for a non-blank text
LegacyChunksRight ==
    /\ chunks = chunk_text(metadata.fulltext, metadata.title)
    /\ \A w \in 1..Len(LegacyWords) :
          \E i \in 1..Len(chunks) :
              /\ chunks[i].chunk_metadata.word_start < w
              /\ w <= chunks[i].chunk_metadata.word_end
              /\ WordsOfChunk(i)[w - chunks[i].chunk_metadata.word_start]
                     = LegacyWords[w]
    /\ \A i \in 1..Len(chunks) :
          /\ Len(WordsOfChunk(i)) <= chunk_size
          /\ Len(WordsOfChunk(i)) = chunks[i].chunk_metadata.word_end
                                        - chunks[i].chunk_metadata.word_start
          /\ chunks[i].chunk_index = i - 1
    /\ \A i \in 1..(Len(chunks) - 1) :
          /\ chunks[i].chunk_metadata.word_end
                 - chunks[i + 1].chunk_metadata.word_start = overlap
          /\ chunks[i + 1].chunk_metadata.word_start
                 > chunks[i].chunk_metadata.word_start
          /\ SharesWords(i, i + 1, overlap)

\* C29: for every non-blank text and every chunk_size > overlap >= 0,
\* chunk_text terminates, every word of the text occurs in at least one chunk,
\* each chunk has at most chunk_size words, consecutive chunks share exactly
\* `overlap` words, and the chunk indices are 0..N-1 in order
C29_LegacyChunker ==
    /\ <>LegacyReturned
    /\ [](LegacyReturned /\ strip(metadata.fulltext) # <<>> => LegacyChunksRight)

\* a text cut into at least three windows that overlap, the last one shorter
\* than chunk_size
C29_Witness ==
    /\ LegacyReturned
    /\ overlap > 0
    /\ Len(chunks) >= 3
    /\ Len(WordsOfChunk(Len(chunks))) < chunk_size

-----------------------------------------------------------------------------
(* process_document_task: its executions for one uploaded document *)

MAX_RETRIES == 2           \* @shared_task(..., max_retries=2)
MaxRedeliveries == 1       \* worker losses explored

\* the unique file name that upload_file gives the PDF
FILE_PATH == "uuid.pdf"

\* "Sedang diproses..."
PROCESSING_TITLE == <<"S", "e", "d", "a", "n", "g", " ", "d", "i", "p", "r", "o", "s", "e", "s", ".", ".", ".">>

\* the documents uploaded: one without text (a title chunk only), one with a
\* short fulltext (legacy windows), one with a structured section (smart path)
TaskDocuments ==
    { BaseMetadata,
      [BaseMetadata EXCEPT !.fulltext = F_3],
      [BaseMetadata EXCEPT !.structured_sections =
          << [type |-> "section", title |-> "Introduction", content |-> <<>>,
              paragraphs |-> <<P_TWO, P_U5>>] >>] }

\* api/routes/documents.py 103-118: upload_document has committed the document
\* row with processing_status "processing" and sent the task message
InitTask ==
    /\ pc = "waiting"
    /\ metadata \in TaskDocuments
    /\ pages_data = <<>>
    /\ min_chunk_words = 2
    /\ max_chunk_words = MaxMaxChunkWords
    /\ chunk_size = MaxChunkSize
    /\ overlap = 1
    /\ chunks = <<>>
    /\ path = "none"
    /\ NoTransaction
    /\ db_documents = Append(DocumentTable,
                             [title |-> PROCESSING_TITLE, matches_filters |-> TRUE])
    /\ db_chunks = WithIds(<<RK_A>>)
    /\ call = NoCall
    /\ chunks_with_distance = <<>>
    /\ fetch_count = 0
    /\ ret_chunks = <<>>
    /\ similarities = <<>>
    /\ context_chunks = <<>>
    /\ context_similarities = <<>>
    /\ chat_log = <<>>
    /\ references = <<>>
    /\ error = "none"
    /\ pc_chat = "idle"
    /\ query_info = NoQuery
    /\ chat_filters = <<>>
    /\ processing_status = "processing"
    /\ processing_error = None
    /\ message = "ready"
    /\ retries = 0
    /\ redeliveries = 0
    /\ rerun = FALSE
    /\ storage = { FILE_PATH }

\* lines 201-213: the DocumentChunk row of a chunk, with its chunk_index
TaskRow(chunk_data, outcome) ==
    SetItem(ChunkRow(chunk_data, outcome), "chunk_index", chunk_data.chunk_index)

\* lines 58-67: a worker takes the message; _update_status commits "processing"
TaskBegin ==
    /\ message = "ready"
    /\ pc = "waiting"
    /\ message' = "unacked"
    /\ processing_status' = "processing"
    /\ pc' = "running"
    /\ UNCHANGED <<min_chunk_words, max_chunk_words, chunk_size, overlap,
                   metadata, pages_data, chunks, path, session, flushed>>
    /\ UNCHANGED <<chat_vars, query_vars>>
    /\ UNCHANGED <<processing_error, retries, redeliveries, rerun>>
    /\ UNCHANGED storage

\* lines 73-169: download, extraction, validate_metadata, the commit of the
\* document's metadata, chunking
TaskChunk ==
    /\ pc = "running"
    /\ metadata' = _validate_metadata(metadata,
                       ValidationText(metadata, pages_data), 0)
    /\ db_documents' = [db_documents EXCEPT ![NewDocumentId].title = metadata'.title]
    /\ chunks' = _prepare_chunks(metadata', pages_data)
    /\ path' = IF SmartProduced(SmartChunks(metadata', pages_data))
               THEN "smart" ELSE "legacy"
    /\ pc' = "prepared"
    /\ UNCHANGED <<min_chunk_words, max_chunk_words, chunk_size, overlap,
                   pages_data, session, flushed>>
    /\ UNCHANGED <<db_chunks, call, chunks_with_distance, fetch_count,
                   ret_chunks, similarities, context_chunks,
                   context_similarities, chat_log, references, error, pc_chat>>
    /\ UNCHANGED <<query_vars, task_vars>>

\* lines 175-218: one iteration of the loop
TaskAddChunk ==
    /\ pc = "prepared"
    /\ Len(session) < Len(chunks)
    /\ \E outcome \in EmbeddingOutcomes :
          session' = Append(session, TaskRow(chunks[Len(session) + 1], outcome))
    /\ flushed' = IF FlushDue(Len(session), Len(chunks))
                  THEN Len(session) + 1 ELSE flushed
    /\ UNCHANGED <<min_chunk_words, max_chunk_words, chunk_size, overlap,
                   metadata, pages_data, chunks, path, pc>>
    /\ UNCHANGED <<chat_vars, query_vars, task_vars>>

\* lines 221-223: "completed", processing_error = None and the chunk rows are
\* committed together
TaskCommit ==
    /\ pc = "prepared"
    /\ Len(session) = Len(chunks)
    /\ db_chunks' = Inserted(db_chunks, session)
    /\ session' = <<>>
    /\ flushed' = 0
    /\ processing_status' = "completed"
    /\ processing_error' = None
    /\ pc' = "committed"
    /\ UNCHANGED <<min_chunk_words, max_chunk_words, chunk_size, overlap,
                   metadata, pages_data, chunks, path>>
    /\ UNCHANGED <<db_documents, call, chunks_with_distance, fetch_count,
                   ret_chunks, similarities, context_chunks,
                   context_similarities, chat_log, references, error, pc_chat>>
    /\ UNCHANGED <<query_vars, message, retries, redeliveries, rerun>>
    /\ UNCHANGED storage

\* lines 229-234 and 248-249: the task returns; with task_acks_late the
\* message is acknowledged now
TaskReturn ==
    /\ pc = "committed"
    /\ message' = "acked"
    /\ pc' = "waiting"
    /\ UNCHANGED <<min_chunk_words, max_chunk_words, chunk_size, overlap,
                   metadata, pages_data, chunks, path, session, flushed>>
    /\ UNCHANGED <<chat_vars, query_vars>>
    /\ UNCHANGED <<processing_status, processing_error, retries, redeliveries,
                   rerun>>
    /\ UNCHANGED storage

\* mutant: the handler does not roll back, so the commit of _update_status
\* commits the chunk rows of the session too
TaskRaise_NoRollback ==
    /\ pc \in { "running", "prepared" }
    /\ db_chunks' = Inserted(db_chunks, session)
    /\ session' = <<>>
    /\ flushed' = 0
    /\ processing_status' = "failed"
    /\ processing_error' = Some("Exception")
    /\ IF retries < MAX_RETRIES
       THEN message' = "ready" /\ retries' = retries + 1
       ELSE message' = "acked" /\ retries' = retries
    /\ pc' = "waiting"
    /\ UNCHANGED <<min_chunk_words, max_chunk_words, chunk_size, overlap,
                   metadata, pages_data, chunks, path>>
    /\ UNCHANGED <<db_documents, call, chunks_with_distance, fetch_count,
                   ret_chunks, similarities, context_chunks,
                   context_similarities, chat_log, references, error, pc_chat>>
    /\ UNCHANGED <<query_vars, redeliveries, rerun>>
    /\ UNCHANGED storage

\* lines 236-246: an exception at any step of the try block; db.rollback(),
\* _update_status commits "failed" and the error, and self.retry sends the
\* message again while retries < max_retries
TaskRaise ==
    /\ pc \in { "running", "prepared" }
    /\ session' = <<>>
    /\ flushed' = 0
    /\ processing_status' = "failed"
    /\ processing_error' = Some("Exception")
    /\ IF retries < MAX_RETRIES
       THEN message' = "ready" /\ retries' = retries + 1
       ELSE message' = "acked" /\ retries' = retries
    /\ pc' = "waiting"
    /\ UNCHANGED <<min_chunk_words, max_chunk_words, chunk_size, overlap,
                   metadata, pages_data, chunks, path>>
    /\ UNCHANGED <<chat_vars, query_vars, redeliveries, rerun>>
    /\ UNCHANGED storage

\* lines 236-240 when the exception is the database's: db.rollback(), then the
\* query of _update_status raises too, out of the handler; nothing is
\* committed, line 243 is not reached, and the failed task is acknowledged
TaskRaiseInHandler ==
    /\ pc \in { "running", "prepared" }
    /\ session' = <<>>
    /\ flushed' = 0
    /\ message' = "acked"
    /\ pc' = "waiting"
    /\ UNCHANGED <<min_chunk_words, max_chunk_words, chunk_size, overlap,
                   metadata, pages_data, chunks, path>>
    /\ UNCHANGED <<chat_vars, query_vars>>
    /\ UNCHANGED <<processing_status, processing_error, retries, redeliveries,
                   rerun>>
    /\ UNCHANGED storage

\* celery_app.py 27-28: the worker process is lost before the acknowledgement;
\* the open transaction is gone with the connection, and with
\* task_reject_on_worker_lost the broker delivers the message again
WorkerLost ==
    /\ message = "unacked"
    /\ pc \in { "running", "prepared", "committed" }
    /\ redeliveries < MaxRedeliveries
    /\ session' = <<>>
    /\ flushed' = 0
    /\ message' = "ready"
    /\ redeliveries' = redeliveries + 1
    /\ rerun' = (rerun \/ pc = "committed")
    /\ pc' = "waiting"
    /\ UNCHANGED <<min_chunk_words, max_chunk_words, chunk_size, overlap,
                   metadata, pages_data, chunks, path>>
    /\ UNCHANGED <<chat_vars, query_vars>>
    /\ UNCHANGED <<processing_status, processing_error, retries>>
    /\ UNCHANGED storage

NextTask ==
    \/ TaskBegin
    \/ TaskChunk
    \/ TaskAddChunk
    \/ TaskCommit
    \/ TaskReturn
    \/ TaskRaise
    \/ TaskRaiseInHandler
    \/ WorkerLost

SpecTask == InitTask /\ [][NextTask]_vars

-----------------------------------------------------------------------------
(* Properties of the task *)

\* the committed chunk rows of the document of the task (table positions)
DocumentRows == { i \in 1..Len(db_chunks) : db_chunks[i].document_id = NewDocumentId }

\* C26: after any sequence of executions of process_document_task for a
\* document (retries after a failed attempt, redelivery after a worker is lost
\* or after a completed run), its committed chunks have pairwise distinct
\* chunk_index values
C26_DistinctChunkIndex ==
    \A i, j \in DocumentRows :
        i # j => db_chunks[i].chunk_index # db_chunks[j].chunk_index

\* a step that commits chunk rows commits all the rows of the attempt together
\* with "completed" and a cleared processing_error
AtomicCommitStep ==
    db_chunks' # db_chunks =>
        /\ Len(session) = Len(chunks)
        /\ db_chunks' = Inserted(db_chunks, session)
        /\ processing_status' = "completed"
        /\ processing_error' = None

\* "completed" is set only by such a step
CompletedOnlyWithChunks ==
    processing_status' = "completed" /\ processing_status # "completed" =>
        db_chunks' # db_chunks

\* a step in which a running attempt ends by an exception: the execution is
\* over, nothing was committed by line 223 and the worker was not lost
AttemptRaises ==
    /\ pc \in { "running", "prepared" }
    /\ pc' = "waiting"
    /\ redeliveries' = redeliveries

\* the attempt that raises leaves "failed" and the error
RaiseLeavesFailed ==
    AttemptRaises =>
        /\ db_chunks' = db_chunks
        /\ processing_status' = "failed"
        /\ processing_error' # None

\* the attempt that raises commits no chunk, and leaves "failed" and the error
\* unless the status update of the handler raises too, which leaves the row
\* as it was and ends the executions
RaiseLeavesFailedOrUntouched ==
    AttemptRaises =>
        /\ db_chunks' = db_chunks
        /\ \/ processing_status' = "failed" /\ processing_error' # None
           \/ /\ processing_status' = processing_status
              /\ processing_error' = processing_error
              /\ processing_status = "processing"
              /\ message' = "acked"

-----------------------------------------------------------------------------
(* DocumentService.process_document *)

\* the documents of the requests: those of the task, and one with a longer
\* fulltext and an abstract
ProcessDocuments ==
    TaskDocuments \cup { [BaseMetadata EXCEPT !.fulltext = F_7, !.abstract = C_ABS] }

\* a request arrives: nothing of the document is stored yet
InitProcess ==
    /\ pc = "request"
    /\ metadata \in ProcessDocuments
    /\ pages_data = <<>>
    /\ min_chunk_words = 2
    /\ max_chunk_words = MaxMaxChunkWords
    /\ chunk_size = MaxChunkSize
    /\ overlap = 1
    /\ chunks = <<>>
    /\ path = "none"
    /\ NoTransaction
    /\ TaskIdle
    /\ ChatIdle
    /\ db_chunks = WithIds(<<RK_A>>)

\* lines 799-807: validation and storage.upload_file
ProcessUpload ==
    /\ pc = "request"
    /\ storage' = storage \cup { FILE_PATH }
    /\ pc' = "uploaded"
    /\ UNCHANGED <<min_chunk_words, max_chunk_words, chunk_size, overlap,
                   metadata, pages_data, chunks, path, session, flushed>>
    /\ UNCHANGED <<chat_vars, query_vars>>
    /\ UNCHANGED <<processing_status, processing_error, message, retries,
                   redeliveries, rerun>>

\* lines 809-821: _extract_metadata, then the document row is added and
\* flushed in the open transaction; from here on pc = "start" or "prepared"
\* means that the row is pending
ProcessExtract ==
    /\ pc = "uploaded"
    /\ metadata' = _validate_metadata(metadata,
                       ValidationText(metadata, pages_data), 0)
    /\ pc' = "start"
    /\ UNCHANGED <<min_chunk_words, max_chunk_words, chunk_size, overlap,
                   pages_data, chunks, path, session, flushed>>
    /\ UNCHANGED <<chat_vars, query_vars, task_vars>>

\* ChunkProcessor.process_chunks, lines 721-764: one iteration, db.add(chunk)
ProcessChunk ==
    /\ pc = "prepared"
    /\ Len(session) < Len(chunks)
    /\ \E outcome \in EmbeddingOutcomes :
          session' = Append(session, TaskRow(chunks[Len(session) + 1], outcome))
    /\ UNCHANGED <<min_chunk_words, max_chunk_words, chunk_size, overlap,
                   metadata, pages_data, chunks, path, pc, flushed>>
    /\ UNCHANGED <<chat_vars, query_vars, task_vars>>

\* lines 829-836: the commit of the document row and its chunk rows
ProcessCommit ==
    /\ pc = "prepared"
    /\ Len(session) = Len(chunks)
    /\ db_documents' = Append(db_documents,
                              [title |-> metadata.title, matches_filters |-> TRUE])
    /\ db_chunks' = Inserted(db_chunks, session)
    /\ session' = <<>>
    /\ pc' = "completed"
    /\ UNCHANGED <<min_chunk_words, max_chunk_words, chunk_size, overlap,
                   metadata, pages_data, chunks, path, flushed>>
    /\ UNCHANGED <<call, chunks_with_distance, fetch_count,
                   ret_chunks, similarities, context_chunks,
                   context_similarities, chat_log, references, error, pc_chat>>
    /\ UNCHANGED <<query_vars, task_vars>>

\* lines 839-840: an HTTPException raised inside the try block is raised
\* again as it is. extract_header and extract_fulltext raise it when GROBID is
\* unreachable, times out or answers with an error (grobid.py 55-74, 168-176),
\* _extract_raw_pdf_text for every failure of PyMuPDF (document.py 912-948)
ProcessFailsHttp ==
    /\ pc = "uploaded"
    /\ error' = "HTTPException"
    /\ pc' = "failed"
    /\ UNCHANGED <<min_chunk_words, max_chunk_words, chunk_size, overlap,
                   metadata, pages_data, chunks, path, session, flushed>>
    /\ UNCHANGED <<db_documents, db_chunks, call, chunks_with_distance,
                   fetch_count, ret_chunks, similarities, context_chunks,
                   context_similarities, chat_log, references, pc_chat>>
    /\ UNCHANGED <<query_vars, task_vars>>

\* mutant: the handler rolls back but leaves the uploaded file
ProcessFails_FileKept ==
    /\ pc \in { "uploaded", "start", "prepared" }
    /\ session' = <<>>
    /\ error' = "HTTP500"
    /\ pc' = "failed"
    /\ UNCHANGED <<min_chunk_words, max_chunk_words, chunk_size, overlap,
                   metadata, pages_data, chunks, path, flushed>>
    /\ UNCHANGED <<db_documents, db_chunks, call, chunks_with_distance,
                   fetch_count, ret_chunks, similarities, context_chunks,
                   context_similarities, chat_log, references, pc_chat>>
    /\ UNCHANGED <<query_vars, task_vars>>

\* lines 841-844: any other exception, at any step after the upload:
\* db.rollback(), storage.delete_file(file_path), HTTP 500
ProcessFails ==
    /\ pc \in { "uploaded", "start", "prepared" }
    /\ session' = <<>>
    /\ storage' = storage \ { FILE_PATH }
    /\ error' = "HTTP500"
    /\ pc' = "failed"
    /\ UNCHANGED <<min_chunk_words, max_chunk_words, chunk_size, overlap,
                   metadata, pages_data, chunks, path, flushed>>
    /\ UNCHANGED <<db_documents, db_chunks, call, chunks_with_distance,
                   fetch_count, ret_chunks, similarities, context_chunks,
                   context_similarities, chat_log, references, pc_chat>>
    /\ UNCHANGED query_vars
    /\ UNCHANGED <<processing_status, processing_error, message, retries,
                   redeliveries, rerun>>

NextProcess ==
    \/ ProcessUpload
    \/ ProcessExtract
    \/ PrepareChunks
    \/ ProcessChunk
    \/ ProcessCommit
    \/ ProcessFailsHttp
    \/ ProcessFails

SpecProcess == InitProcess /\ [][NextProcess]_vars

\* the call has failed
ProcessFailed == pc = "failed"

\* the failed call has left nothing in the database
NothingInDatabase ==
    /\ session = <<>>
    /\ db_documents = DocumentTable
    /\ DocumentRows = {}

====
